---- MODULE Spec2Model ----
(***************************************************************************)
(* Model of the report aggregation engine of event-summary-demo:           *)
(* generateReport (src/src/lib/reportGenerator.ts) as a state machine      *)
(* whose steps are the phases of the function body.                        *)
(*                                                                         *)
(* Amounts are JavaScript numbers in the source; they are modelled as      *)
(* integers (minor currency units), so += is exact integer addition.       *)
(* A JavaScript Map is modelled by its keys in insertion order and, at the *)
(* same positions, their values.                                           *)
(*                                                                         *)
(* The second part models the column registry (src/src/lib/reportColumns.ts)*)
(* and the cell formatting of the report table                             *)
(* (src/src/lib/csvParser.ts, script of the ReportTable component).        *)
(*                                                                         *)
(* The third part models the CSV export (escapeCsvField, generateCsv), the *)
(* selections of the report table with its reactive effect, and the upload *)
(* component (src/src/components/CsvUpload.svelte) with its asynchronous   *)
(* calls of processFiles.  Texts are strings; a CSV text is read back      *)
(* character by character.                                                 *)
(***************************************************************************)
EXTENDS Integers, Sequences, FiniteSets, TLC

VARIABLES
    validAttendees,                          \* argument of generateReport
    cancelledAttendees,                      \* argument of generateReport
    pc,                                      \* position inside generateReport
    eventName,
    allAttendees,
    processedCount,
    ticketTypeMap,
    gatewayBreakdownMap,                     \* ticketType -> gateway -> bucket
    salesChannelBreakdownMapForTicket,       \* ticketType -> salesChannel -> bucket
    gatewayMap,
    ticketTypeBreakdownMap,                  \* gateway -> ticketType -> bucket
    salesChannelBreakdownMapForGateway,      \* gateway -> salesChannel -> bucket
    salesChannelMap,
    ticketTypeBreakdownMapForSalesChannel,   \* salesChannel -> ticketType -> bucket
    gatewayBreakdownMapForSalesChannel,      \* salesChannel -> gateway -> bucket
    allGateways,
    allTicketTypes,
    allSalesChannels,
    rows,
    gatewayRows,
    salesChannelRows,
    result,                                  \* the returned ReportData
    primaryDimension,                        \* ReportTable: selected primary dimension
    breakdownType,                           \* ReportTable: selected breakdown
    column,                                  \* the ReportColumn of the cell being formatted
    cellRow,                                 \* the row of the cell being formatted
    viewColumns,                             \* what getColumnsForCsv() returned
    tableColumns,                            \* what getColumns() returned
    csvText,                                 \* what formatColumnValueForCsv returned
    screenText,                              \* what formatColumnValue returned
    csvField,                                \* argument of escapeCsvField
    escaped,                                 \* what escapeCsvField returned
    reportData,                              \* ReportTable: the report shown
    csv,                                     \* what generateCsv returned
    expandedRows,                            \* ReportTable: keys of the expanded rows
    effectPending,                           \* ReportTable: the $effect is scheduled
    selectedDates,                           \* ReportTable: checked date filters
    validFile,                               \* CsvUpload: selected file of valid attendees
    cancelledFile,                           \* CsvUpload: selected file of cancelled attendees
    processing,                              \* CsvUpload: the busy indicator
    storageProgress,
    uploadPanelExpanded,
    invocations,                             \* the calls of processFiles in flight
    startedCount,                            \* calls of processFiles so far
    delivered                                \* the last argument of onDataParsed

inputs == <<validAttendees, cancelledAttendees>>

maps == <<ticketTypeMap, gatewayBreakdownMap, salesChannelBreakdownMapForTicket,
          gatewayMap, ticketTypeBreakdownMap, salesChannelBreakdownMapForGateway,
          salesChannelMap, ticketTypeBreakdownMapForSalesChannel,
          gatewayBreakdownMapForSalesChannel>>

globalSets == <<allGateways, allTicketTypes, allSalesChannels>>

\* The state of a call of generateReport.
call == <<inputs, pc, eventName, allAttendees, processedCount, maps, globalSets,
          rows, gatewayRows, salesChannelRows, result>>

\* The state of the report table.
table == <<primaryDimension, breakdownType, column, cellRow,
           viewColumns, tableColumns, csvText, screenText>>

\* The rest of the state of the page's components.
escape == <<csvField, escaped>>

export == <<reportData, csv>>

selection == <<expandedRows, effectPending, selectedDates>>

upload == <<validFile, cancelledFile, processing, storageProgress,
            uploadPanelExpanded, invocations, startedCount, delivered>>

page == <<escape, export, selection, upload>>

\* What a step of one part of the page leaves alone.
besidesEscape == <<call, table, export, selection, upload>>

besidesExport == <<call, table, escape, selection, upload>>

besidesSelection == <<call, column, cellRow, viewColumns, tableColumns, csvText,
                      screenText, escape, export, upload>>

besidesUpload == <<call, table, escape, export, selection>>

vars == <<call, table, page>>

----------------------------------------------------------------------------
(* Bounds and the input universe *)

\* Largest total number of attendee records in the two input lists.
MaxAttendees == 3

\* The value of an optional field that is absent (undefined / null).
Undefined == "<undefined>"

\* A value the model has not computed yet (a const not yet initialised).
NotYet == <<>>

FeeFields == <<"humanitixPassedOnFees", "humanitixAbsorbedFees", "amexSurcharge",
               "customTax", "zipFeeAbsorbed", "afterpayFeeAbsorbed", "refunds",
               "feeRebate", "yourEarnings", "refundedFees", "discountRedeemed",
               "taxOnSales", "taxOnBookingFees">>

FeeFieldSet == {FeeFields[k] : k \in 1..Len(FeeFields)}

NumericFields == {"totalPaid"} \cup FeeFieldSet

\* An AttendeeRow; the fee fields get pairwise different values seed * k.
Attendee(ev, tt, paid, status, gw, sc, seed) ==
    [eventName |-> ev, ticketType |-> tt, paid |-> paid, status |-> status,
     gateway |-> gw, salesChannel |-> sc,
     humanitixPassedOnFees |-> seed * 1, humanitixAbsorbedFees |-> seed * 2,
     amexSurcharge |-> seed * 3, customTax |-> seed * 4,
     zipFeeAbsorbed |-> seed * 5, afterpayFeeAbsorbed |-> seed * 6,
     refunds |-> seed * 7, feeRebate |-> seed * 8, yourEarnings |-> seed * 9,
     refundedFees |-> seed * 10, discountRedeemed |-> seed * 11,
     taxOnSales |-> seed * 12, taxOnBookingFees |-> seed * 13]

\* The attendee records the input lists are drawn from.
SampleAttendees ==
    { Attendee("Gala", "GA",  100, "Valid",     "Stripe",  "Online",  1),
      Attendee("Gala", "GA",   50, "Valid",     "PayPal",  "Door",    2),
      Attendee("Expo", "VIP", 200, "Cancelled", "Stripe",  Undefined, 1),
      Attendee("Expo", "VIP",  30, "Cancelled", Undefined, Undefined, 3),
      Attendee("Gala", "GA",   70, "Cancelled", "",        "Online", -1),
      Attendee("Expo", "VIP",  20, "Valid",     "PayPal",  "",        0) }

SeqsUpTo(n, S) == UNION {[1..k -> S] : k \in 0..n}

\* JavaScript truthiness of an optional string: undefined, null and '' are falsy.
Truthy(s) == s # Undefined /\ s # ""

----------------------------------------------------------------------------
(* String.prototype.localeCompare on the key universe *)

CollationOrder ==
    <<"", "Box \"A\"", "Door", "GA", "Online", "PayPal", "Stripe", "VIP", "VIP, Gold">>

Rank(s) == CHOOSE k \in 1..Len(CollationOrder) : CollationOrder[k] = s

localeCompare(a, b) ==
    IF Rank(a) < Rank(b) THEN -1 ELSE IF Rank(a) > Rank(b) THEN 1 ELSE 0

\* Array.prototype.sort((a, b) => a.localeCompare(b)) on an array of keys:
\* a stable insertion sort.
RECURSIVE InsertKey(_, _)
InsertKey(s, x) ==
    IF s = <<>> THEN <<x>>
    ELSE IF localeCompare(x, s[Len(s)]) >= 0 THEN Append(s, x)
    ELSE Append(InsertKey(SubSeq(s, 1, Len(s) - 1), x), s[Len(s)])

RECURSIVE SortKeys(_)
SortKeys(s) ==
    IF s = <<>> THEN <<>>
    ELSE InsertKey(SortKeys(SubSeq(s, 1, Len(s) - 1)), s[Len(s)])

\* Array.prototype.sort((a, b) => a[keyField].localeCompare(b[keyField])) on an
\* array of rows: a stable insertion sort.
RECURSIVE InsertRow(_, _, _)
InsertRow(s, x, keyField) ==
    IF s = <<>> THEN <<x>>
    ELSE IF localeCompare(x[keyField], s[Len(s)][keyField]) >= 0 THEN Append(s, x)
    ELSE Append(InsertRow(SubSeq(s, 1, Len(s) - 1), x, keyField), s[Len(s)])

\* Mutant: the rows are left in the insertion order of the map.
SortRows_Unsorted(s, keyField) == s

RECURSIVE SortRows(_, _)
SortRows(s, keyField) ==
    IF s = <<>> THEN <<>>
    ELSE InsertRow(SortRows(SubSeq(s, 1, Len(s) - 1), keyField), s[Len(s)], keyField)

----------------------------------------------------------------------------
(* JavaScript Map: keys in insertion order, and the value of each key *)

NewMap == [keys |-> <<>>, at |-> <<>>]

MapHas(m, k) == \E j \in 1..Len(m.keys) : m.keys[j] = k

MapIndex(m, k) == CHOOSE j \in 1..Len(m.keys) : m.keys[j] = k

MapGet(m, k) == m.at[MapIndex(m, k)]

MapSet(m, k, v) ==
    IF MapHas(m, k) THEN [m EXCEPT !.at[MapIndex(m, k)] = v]
    ELSE [keys |-> Append(m.keys, k), at |-> Append(m.at, v)]

\* Array.from(m.keys()) and Array.from(m.values())
MapKeys(m) == m.keys
MapValues(m) == m.at

----------------------------------------------------------------------------
(* Buckets *)

initZeroNumericFields ==
    [humanitixPassedOnFees |-> 0, humanitixAbsorbedFees |-> 0, amexSurcharge |-> 0,
     customTax |-> 0, zipFeeAbsorbed |-> 0, afterpayFeeAbsorbed |-> 0, refunds |-> 0,
     feeRebate |-> 0, yourEarnings |-> 0, refundedFees |-> 0, discountRedeemed |-> 0,
     taxOnSales |-> 0, taxOnBookingFees |-> 0]

\* Mutant: the last line adds taxOnSales where it should add taxOnBookingFees.
aggregateNumericFields_WrongSource(target, source) ==
    [target EXCEPT
        !.humanitixPassedOnFees = @ + source.humanitixPassedOnFees,
        !.humanitixAbsorbedFees = @ + source.humanitixAbsorbedFees,
        !.amexSurcharge = @ + source.amexSurcharge,
        !.customTax = @ + source.customTax,
        !.zipFeeAbsorbed = @ + source.zipFeeAbsorbed,
        !.afterpayFeeAbsorbed = @ + source.afterpayFeeAbsorbed,
        !.refunds = @ + source.refunds,
        !.feeRebate = @ + source.feeRebate,
        !.yourEarnings = @ + source.yourEarnings,
        !.refundedFees = @ + source.refundedFees,
        !.discountRedeemed = @ + source.discountRedeemed,
        !.taxOnSales = @ + source.taxOnSales,
        !.taxOnBookingFees = @ + source.taxOnSales]

aggregateNumericFields(target, source) ==
    [target EXCEPT
        !.humanitixPassedOnFees = @ + source.humanitixPassedOnFees,
        !.humanitixAbsorbedFees = @ + source.humanitixAbsorbedFees,
        !.amexSurcharge = @ + source.amexSurcharge,
        !.customTax = @ + source.customTax,
        !.zipFeeAbsorbed = @ + source.zipFeeAbsorbed,
        !.afterpayFeeAbsorbed = @ + source.afterpayFeeAbsorbed,
        !.refunds = @ + source.refunds,
        !.feeRebate = @ + source.feeRebate,
        !.yourEarnings = @ + source.yourEarnings,
        !.refundedFees = @ + source.refundedFees,
        !.discountRedeemed = @ + source.discountRedeemed,
        !.taxOnSales = @ + source.taxOnSales,
        !.taxOnBookingFees = @ + source.taxOnBookingFees]

\* Mutant: an existing bucket counts every record as valid.
AddToBucket_AlwaysValid(existing, attendee) ==
    aggregateNumericFields(
        [existing EXCEPT !.totalPaid = @ + attendee.paid, !.validCount = @ + 1],
        attendee)

\* The "existing" branch of every get-or-create block of the main loop.
AddToBucket(existing, attendee) ==
    LET paid == [existing EXCEPT !.totalPaid = @ + attendee.paid]
        counted == IF attendee.status = "Valid"
                   THEN [paid EXCEPT !.validCount = @ + 1]
                   ELSE [paid EXCEPT !.cancelledCount = @ + 1]
    IN aggregateNumericFields(counted, attendee)

\* The object literal { <keyField>: key, totalPaid, validCount, cancelledCount,
\* ...initZeroNumericFields() } of the three bucket shapes.
ObjectLiteral(keyField, key, totalPaid, validCount, cancelledCount) ==
    LET zero == initZeroNumericFields
    IN
        CASE keyField = "ticketType" ->
              [ticketType |-> key, totalPaid |-> totalPaid,
               validCount |-> validCount, cancelledCount |-> cancelledCount,
               humanitixPassedOnFees |-> zero.humanitixPassedOnFees, humanitixAbsorbedFees |-> zero.humanitixAbsorbedFees,
               amexSurcharge |-> zero.amexSurcharge, customTax |-> zero.customTax,
               zipFeeAbsorbed |-> zero.zipFeeAbsorbed, afterpayFeeAbsorbed |-> zero.afterpayFeeAbsorbed,
               refunds |-> zero.refunds, feeRebate |-> zero.feeRebate,
               yourEarnings |-> zero.yourEarnings, refundedFees |-> zero.refundedFees,
               discountRedeemed |-> zero.discountRedeemed, taxOnSales |-> zero.taxOnSales,
               taxOnBookingFees |-> zero.taxOnBookingFees]
          [] keyField = "gateway" ->
              [gateway |-> key, totalPaid |-> totalPaid,
               validCount |-> validCount, cancelledCount |-> cancelledCount,
               humanitixPassedOnFees |-> zero.humanitixPassedOnFees, humanitixAbsorbedFees |-> zero.humanitixAbsorbedFees,
               amexSurcharge |-> zero.amexSurcharge, customTax |-> zero.customTax,
               zipFeeAbsorbed |-> zero.zipFeeAbsorbed, afterpayFeeAbsorbed |-> zero.afterpayFeeAbsorbed,
               refunds |-> zero.refunds, feeRebate |-> zero.feeRebate,
               yourEarnings |-> zero.yourEarnings, refundedFees |-> zero.refundedFees,
               discountRedeemed |-> zero.discountRedeemed, taxOnSales |-> zero.taxOnSales,
               taxOnBookingFees |-> zero.taxOnBookingFees]
          [] keyField = "salesChannel" ->
              [salesChannel |-> key, totalPaid |-> totalPaid,
               validCount |-> validCount, cancelledCount |-> cancelledCount,
               humanitixPassedOnFees |-> zero.humanitixPassedOnFees, humanitixAbsorbedFees |-> zero.humanitixAbsorbedFees,
               amexSurcharge |-> zero.amexSurcharge, customTax |-> zero.customTax,
               zipFeeAbsorbed |-> zero.zipFeeAbsorbed, afterpayFeeAbsorbed |-> zero.afterpayFeeAbsorbed,
               refunds |-> zero.refunds, feeRebate |-> zero.feeRebate,
               yourEarnings |-> zero.yourEarnings, refundedFees |-> zero.refundedFees,
               discountRedeemed |-> zero.discountRedeemed, taxOnSales |-> zero.taxOnSales,
               taxOnBookingFees |-> zero.taxOnBookingFees]

\* Mutant: a new bucket is stored without the fee fields of its first record.
CreateBucket_NoFirstFees(keyField, key, attendee) ==
    ObjectLiteral(keyField, key, attendee.paid,
                  IF attendee.status = "Valid" THEN 1 ELSE 0,
                  IF attendee.status = "Cancelled" THEN 1 ELSE 0)

\* Mutant: the literal of a new bucket starts totalPaid at 0.
CreateBucket_ZeroPaid(keyField, key, attendee) ==
    aggregateNumericFields(
        ObjectLiteral(keyField, key, 0,
                      IF attendee.status = "Valid" THEN 1 ELSE 0,
                      IF attendee.status = "Cancelled" THEN 1 ELSE 0),
        attendee)

\* The "else" branch: the object literal passed to set(), then aggregated.
CreateBucket(keyField, key, attendee) ==
    aggregateNumericFields(
        ObjectLiteral(keyField, key, attendee.paid,
                      IF attendee.status = "Valid" THEN 1 ELSE 0,
                      IF attendee.status = "Cancelled" THEN 1 ELSE 0),
        attendee)

\* Mutant: the zero-filled entry is written like the literal of a first record.
EmptyBreakdown_CountsOne(keyField, key) == ObjectLiteral(keyField, key, 0, 1, 0)

\* The zero-filled entry pushed for a key with no second-level bucket.
EmptyBreakdown(keyField, key) == ObjectLiteral(keyField, key, 0, 0, 0)

\* get-or-create on a first-level map.
Upsert(m, keyField, key, attendee) ==
    IF MapHas(m, key)
    THEN MapSet(m, key, AddToBucket(MapGet(m, key), attendee))
    ELSE MapSet(m, key, CreateBucket(keyField, key, attendee))

\* Mutant: the inner map is created anew for every record.
UpsertNested_FreshInner(m, outerKey, innerField, innerKey, attendee) ==
    MapSet(m, outerKey, Upsert(NewMap, innerField, innerKey, attendee))

\* get-or-create of the inner map, then get-or-create in it.
UpsertNested(m, outerKey, innerField, innerKey, attendee) ==
    LET inner == IF MapHas(m, outerKey) THEN MapGet(m, outerKey) ELSE NewMap
    IN MapSet(m, outerKey, Upsert(inner, innerField, innerKey, attendee))

----------------------------------------------------------------------------
(* generateReport, phase by phase *)

\* The nine maps created before the main loop.
EmptyMaps ==
    [ticketTypeMap |-> NewMap,
     gatewayBreakdownMap |-> NewMap,
     salesChannelBreakdownMapForTicket |-> NewMap,
     gatewayMap |-> NewMap,
     ticketTypeBreakdownMap |-> NewMap,
     salesChannelBreakdownMapForGateway |-> NewMap,
     salesChannelMap |-> NewMap,
     ticketTypeBreakdownMapForSalesChannel |-> NewMap,
     gatewayBreakdownMapForSalesChannel |-> NewMap]

\* The value that stands for a thrown TypeError.
TypeError == "<TypeError>"

\* list[0].eventName: the element of an empty array is undefined, and reading
\* a property of undefined throws.
FirstEventName(list) == IF Len(list) > 0 THEN list[1].eventName ELSE TypeError

\* Mutant: the cancelled list is looked at first.
SelectEventName_CancelledFirst(valid, cancelled) ==
    IF Len(cancelled) > 0 THEN cancelled[1].eventName
    ELSE IF Len(valid) > 0 THEN valid[1].eventName
    ELSE ""

\* Mutant: no fallback to the empty string.
SelectEventName_NoDefault(valid, cancelled) ==
    IF Len(valid) > 0 THEN valid[1].eventName
    ELSE IF Len(cancelled) > 0 THEN cancelled[1].eventName
    ELSE Undefined

\* Mutant: the first valid attendee is read without the length test.
SelectEventName_Unguarded(valid, cancelled) == FirstEventName(valid)

\* const eventName = ...
SelectEventName(valid, cancelled) ==
    IF Len(valid) > 0 THEN FirstEventName(valid)
    ELSE IF Len(cancelled) > 0 THEN FirstEventName(cancelled)
    ELSE ""

\* const allAttendees = [...validAttendees, ...cancelledAttendees]
Combine(valid, cancelled) == valid \o cancelled

\* Loop body, first block: aggregate by ticket type.
AggregateTicketType(m, attendee) ==
    [m EXCEPT !.ticketTypeMap =
        Upsert(@, "ticketType", attendee.ticketType, attendee)]

\* Mutant: the gateway block tests gateway !== undefined, so '' passes.
AggregateGateway_EmptyPasses(m, attendee) ==
    IF attendee.gateway # Undefined
    THEN LET gatewayKey == attendee.gateway
             m1 == [m EXCEPT
                       !.gatewayBreakdownMap =
                           UpsertNested(@, attendee.ticketType, "gateway",
                                        gatewayKey, attendee),
                       !.gatewayMap =
                           Upsert(@, "gateway", gatewayKey, attendee),
                       !.ticketTypeBreakdownMap =
                           UpsertNested(@, gatewayKey, "ticketType",
                                        attendee.ticketType, attendee)]
         IN IF Truthy(attendee.salesChannel)
            THEN [m1 EXCEPT !.salesChannelBreakdownMapForGateway =
                     UpsertNested(@, gatewayKey, "salesChannel",
                                  attendee.salesChannel, attendee)]
            ELSE m1
    ELSE m

\* Mutant: the gateway block does not track the ticket types of a gateway.
AggregateGateway_NoTicketTypeBreakdown(m, attendee) ==
    IF Truthy(attendee.gateway)
    THEN LET gatewayKey == attendee.gateway
             m1 == [m EXCEPT
                       !.gatewayBreakdownMap =
                           UpsertNested(@, attendee.ticketType, "gateway",
                                        gatewayKey, attendee),
                       !.gatewayMap =
                           Upsert(@, "gateway", gatewayKey, attendee)]
         IN IF Truthy(attendee.salesChannel)
            THEN [m1 EXCEPT !.salesChannelBreakdownMapForGateway =
                     UpsertNested(@, gatewayKey, "salesChannel",
                                  attendee.salesChannel, attendee)]
            ELSE m1
    ELSE m

\* Loop body, second block: if (attendee.gateway) { ... }
AggregateGateway(m, attendee) ==
    IF Truthy(attendee.gateway)
    THEN LET gatewayKey == attendee.gateway
             m1 == [m EXCEPT
                       !.gatewayBreakdownMap =
                           UpsertNested(@, attendee.ticketType, "gateway",
                                        gatewayKey, attendee),
                       !.gatewayMap =
                           Upsert(@, "gateway", gatewayKey, attendee),
                       !.ticketTypeBreakdownMap =
                           UpsertNested(@, gatewayKey, "ticketType",
                                        attendee.ticketType, attendee)]
         IN IF Truthy(attendee.salesChannel)
            THEN [m1 EXCEPT !.salesChannelBreakdownMapForGateway =
                     UpsertNested(@, gatewayKey, "salesChannel",
                                  attendee.salesChannel, attendee)]
            ELSE m1
    ELSE m

\* Mutant: the ticket types of a sales channel are tracked only for records
\* that also have a gateway.
AggregateSalesChannel_TicketTypeNeedsGateway(m, attendee) ==
    IF Truthy(attendee.salesChannel)
    THEN LET salesChannelKey == attendee.salesChannel
             m1 == [m EXCEPT
                       !.salesChannelBreakdownMapForTicket =
                           UpsertNested(@, attendee.ticketType, "salesChannel",
                                        salesChannelKey, attendee),
                       !.salesChannelMap =
                           Upsert(@, "salesChannel", salesChannelKey, attendee)]
         IN IF Truthy(attendee.gateway)
            THEN [m1 EXCEPT
                     !.ticketTypeBreakdownMapForSalesChannel =
                         UpsertNested(@, salesChannelKey, "ticketType",
                                      attendee.ticketType, attendee),
                     !.gatewayBreakdownMapForSalesChannel =
                         UpsertNested(@, salesChannelKey, "gateway",
                                      attendee.gateway, attendee)]
            ELSE m1
    ELSE m

\* Loop body, third block: if (attendee.salesChannel) { ... }
AggregateSalesChannel(m, attendee) ==
    IF Truthy(attendee.salesChannel)
    THEN LET salesChannelKey == attendee.salesChannel
             m1 == [m EXCEPT
                       !.salesChannelBreakdownMapForTicket =
                           UpsertNested(@, attendee.ticketType, "salesChannel",
                                        salesChannelKey, attendee),
                       !.salesChannelMap =
                           Upsert(@, "salesChannel", salesChannelKey, attendee),
                       !.ticketTypeBreakdownMapForSalesChannel =
                           UpsertNested(@, salesChannelKey, "ticketType",
                                        attendee.ticketType, attendee)]
         IN IF Truthy(attendee.gateway)
            THEN [m1 EXCEPT !.gatewayBreakdownMapForSalesChannel =
                     UpsertNested(@, salesChannelKey, "gateway",
                                  attendee.gateway, attendee)]
            ELSE m1
    ELSE m

\* One iteration of for (const attendee of allAttendees).
Accumulate(m, attendee) ==
    AggregateSalesChannel(AggregateGateway(AggregateTicketType(m, attendee), attendee),
                          attendee)

\* The whole main loop over a list.
RECURSIVE RunLoop(_, _)
RunLoop(m, list) ==
    IF list = <<>> THEN m
    ELSE RunLoop(Accumulate(m, Head(list)), Tail(list))

\* const allGateways / allTicketTypes / allSalesChannels
CollectKeys(m) == SortKeys(MapKeys(m))

\* Mutant: keys without a second-level bucket are skipped, not zero-filled.
Densify_NoZeroFill(nested, outerKey, allKeys, keyField) ==
    LET present == SelectSeq(allKeys,
                       LAMBDA k : MapHas(nested, outerKey)
                                  /\ MapHas(MapGet(nested, outerKey), k))
    IN [j \in 1..Len(present) |-> MapGet(MapGet(nested, outerKey), present[j])]

\* The inner for loop that fills one breakdown array from the global key list.
Densify(nested, outerKey, allKeys, keyField) ==
    [j \in 1..Len(allKeys) |->
        IF MapHas(nested, outerKey) /\ MapHas(MapGet(nested, outerKey), allKeys[j])
        THEN MapGet(MapGet(nested, outerKey), allKeys[j])
        ELSE EmptyBreakdown(keyField, allKeys[j])]

\* Mutant: the breakdown is assigned without the length test.
Attach_EvenEmpty(row, field, breakdown) == row @@ (field :> breakdown)

\* if (breakdown.length > 0) row.<field> = breakdown
Attach(row, field, breakdown) ==
    IF Len(breakdown) > 0 THEN row @@ (field :> breakdown) ELSE row

\* const rows = ...sort(...); for (const row of rows) { ... }
BuildRows(m, gateways, salesChannels) ==
    LET sorted == SortRows(MapValues(m.ticketTypeMap), "ticketType")
    IN [j \in 1..Len(sorted) |->
           Attach(Attach(sorted[j], "gatewayBreakdown",
                         Densify(m.gatewayBreakdownMap, sorted[j].ticketType,
                                 gateways, "gateway")),
                  "salesChannelBreakdown",
                  Densify(m.salesChannelBreakdownMapForTicket, sorted[j].ticketType,
                          salesChannels, "salesChannel"))]

\* Mutant: the ticket types of the breakdown are those that occur with a gateway.
BuildGatewayRows_TicketTypesWithGateway(m, ticketTypes, salesChannels) ==
    LET sorted == SortRows(MapValues(m.gatewayMap), "gateway")
    IN [j \in 1..Len(sorted) |->
           Attach(Attach(sorted[j], "ticketTypeBreakdown",
                         Densify(m.ticketTypeBreakdownMap, sorted[j].gateway,
                                 CollectKeys(m.gatewayBreakdownMap), "ticketType")),
                  "salesChannelBreakdown",
                  Densify(m.salesChannelBreakdownMapForGateway, sorted[j].gateway,
                          salesChannels, "salesChannel"))]

\* const gatewayRows = ...sort(...); for (const row of gatewayRows) { ... }
BuildGatewayRows(m, ticketTypes, salesChannels) ==
    LET sorted == SortRows(MapValues(m.gatewayMap), "gateway")
    IN [j \in 1..Len(sorted) |->
           Attach(Attach(sorted[j], "ticketTypeBreakdown",
                         Densify(m.ticketTypeBreakdownMap, sorted[j].gateway,
                                 ticketTypes, "ticketType")),
                  "salesChannelBreakdown",
                  Densify(m.salesChannelBreakdownMapForGateway, sorted[j].gateway,
                          salesChannels, "salesChannel"))]

\* const salesChannelRows = ...sort(...); for (const row of salesChannelRows) { ... }
BuildSalesChannelRows(m, ticketTypes, gateways) ==
    LET sorted == SortRows(MapValues(m.salesChannelMap), "salesChannel")
    IN [j \in 1..Len(sorted) |->
           Attach(Attach(sorted[j], "ticketTypeBreakdown",
                         Densify(m.ticketTypeBreakdownMapForSalesChannel,
                                 sorted[j].salesChannel, ticketTypes, "ticketType")),
                  "gatewayBreakdown",
                  Densify(m.gatewayBreakdownMapForSalesChannel,
                          sorted[j].salesChannel, gateways, "gateway"))]

\* generateReport as a function of its two arguments.
generateReport(valid, cancelled) ==
    LET m == RunLoop(EmptyMaps, Combine(valid, cancelled))
        gateways == CollectKeys(m.gatewayMap)
        ticketTypes == CollectKeys(m.ticketTypeMap)
        salesChannels == CollectKeys(m.salesChannelMap)
    IN [eventName |-> SelectEventName(valid, cancelled),
        rows |-> BuildRows(m, gateways, salesChannels),
        gatewayRows |-> BuildGatewayRows(m, ticketTypes, salesChannels),
        salesChannelRows |-> BuildSalesChannelRows(m, ticketTypes, gateways)]

----------------------------------------------------------------------------
(* The state machine *)

\* The nine map variables as one record, and back.
CurrentMaps ==
    [ticketTypeMap |-> ticketTypeMap,
     gatewayBreakdownMap |-> gatewayBreakdownMap,
     salesChannelBreakdownMapForTicket |-> salesChannelBreakdownMapForTicket,
     gatewayMap |-> gatewayMap,
     ticketTypeBreakdownMap |-> ticketTypeBreakdownMap,
     salesChannelBreakdownMapForGateway |-> salesChannelBreakdownMapForGateway,
     salesChannelMap |-> salesChannelMap,
     ticketTypeBreakdownMapForSalesChannel |-> ticketTypeBreakdownMapForSalesChannel,
     gatewayBreakdownMapForSalesChannel |-> gatewayBreakdownMapForSalesChannel]

SetMaps(m) ==
    /\ ticketTypeMap' = m.ticketTypeMap
    /\ gatewayBreakdownMap' = m.gatewayBreakdownMap
    /\ salesChannelBreakdownMapForTicket' = m.salesChannelBreakdownMapForTicket
    /\ gatewayMap' = m.gatewayMap
    /\ ticketTypeBreakdownMap' = m.ticketTypeBreakdownMap
    /\ salesChannelBreakdownMapForGateway' = m.salesChannelBreakdownMapForGateway
    /\ salesChannelMap' = m.salesChannelMap
    /\ ticketTypeBreakdownMapForSalesChannel' = m.ticketTypeBreakdownMapForSalesChannel
    /\ gatewayBreakdownMapForSalesChannel' = m.gatewayBreakdownMapForSalesChannel

\* All nine Maps are empty.
MapsEmpty ==
    /\ ticketTypeMap = NewMap
    /\ gatewayBreakdownMap = NewMap
    /\ salesChannelBreakdownMapForTicket = NewMap
    /\ gatewayMap = NewMap
    /\ ticketTypeBreakdownMap = NewMap
    /\ salesChannelBreakdownMapForGateway = NewMap
    /\ salesChannelMap = NewMap
    /\ ticketTypeBreakdownMapForSalesChannel = NewMap
    /\ gatewayBreakdownMapForSalesChannel = NewMap

\* No text was produced yet.
NoText == "<no text>"

\* The report table before anything was selected or rendered.
TableIdle ==
    /\ primaryDimension = "ticketType"
    /\ breakdownType = "none"
    /\ column = NotYet
    /\ cellRow = NotYet
    /\ viewColumns = NotYet
    /\ tableColumns = NotYet
    /\ csvText = NoText
    /\ screenText = NoText

\* No call of generateReport is under way.
CallIdle ==
    /\ validAttendees = <<>>
    /\ cancelledAttendees = <<>>
    /\ pc = "idle"
    /\ eventName = ""
    /\ allAttendees = <<>>
    /\ processedCount = 0
    /\ MapsEmpty
    /\ allGateways = <<>>
    /\ allTicketTypes = <<>>
    /\ allSalesChannels = <<>>
    /\ rows = <<>>
    /\ gatewayRows = <<>>
    /\ salesChannelRows = <<>>
    /\ result = NotYet

\* Nothing is expanded, no effect is due, all dates are shown.
SelectionIdle ==
    /\ expandedRows = {}
    /\ effectPending = FALSE
    /\ selectedDates = {"all"}

\* validFile = null
NoFile == "<null>"

\* storageProgress = null
NoProgress == -1

\* No file is selected, nothing was parsed.
UploadIdle ==
    /\ validFile = NoFile
    /\ cancelledFile = NoFile
    /\ processing = FALSE
    /\ storageProgress = NoProgress
    /\ uploadPanelExpanded = TRUE
    /\ invocations = <<>>
    /\ startedCount = 0
    /\ delivered = NotYet

\* Nothing has happened in the other components of the page.
PageIdle ==
    /\ UploadIdle
    /\ SelectionIdle
    /\ csvField = NoText
    /\ escaped = NoText
    /\ reportData = NotYet
    /\ csv = NoText

\* A call of generateReport with two lists of attendee records.
Init ==
    /\ validAttendees \in SeqsUpTo(MaxAttendees, SampleAttendees)
    /\ cancelledAttendees \in SeqsUpTo(MaxAttendees - Len(validAttendees), SampleAttendees)
    /\ pc = "start"
    /\ eventName = ""
    /\ allAttendees = <<>>
    /\ processedCount = 0
    /\ ticketTypeMap = NewMap
    /\ gatewayBreakdownMap = NewMap
    /\ salesChannelBreakdownMapForTicket = NewMap
    /\ gatewayMap = NewMap
    /\ ticketTypeBreakdownMap = NewMap
    /\ salesChannelBreakdownMapForGateway = NewMap
    /\ salesChannelMap = NewMap
    /\ ticketTypeBreakdownMapForSalesChannel = NewMap
    /\ gatewayBreakdownMapForSalesChannel = NewMap
    /\ allGateways = <<>>
    /\ allTicketTypes = <<>>
    /\ allSalesChannels = <<>>
    /\ rows = <<>>
    /\ gatewayRows = <<>>
    /\ salesChannelRows = <<>>
    /\ result = NotYet
    /\ TableIdle
    /\ PageIdle

\* Mutant: the cancelled records are pushed onto the caller's valid list.
Start_PushesOntoInput ==
    /\ pc = "start"
    /\ eventName' = SelectEventName(validAttendees, cancelledAttendees)
    /\ validAttendees' = validAttendees \o cancelledAttendees
    /\ allAttendees' = validAttendees'
    /\ SetMaps(EmptyMaps)
    /\ processedCount' = 0
    /\ pc' = "loop"
    /\ UNCHANGED <<cancelledAttendees, globalSets, rows, gatewayRows, salesChannelRows, result>>
    /\ UNCHANGED <<table, page>>

\* Event name, combined list, the empty maps.  A TypeError raised while the
\* event name is read leaves the function without a return value.
Start ==
    /\ pc = "start"
    /\ IF SelectEventName(validAttendees, cancelledAttendees) = TypeError
       THEN /\ pc' = "threw"
            /\ UNCHANGED <<inputs, eventName, allAttendees, processedCount, maps,
                           globalSets, rows, gatewayRows, salesChannelRows, result>>
            /\ UNCHANGED <<table, page>>
       ELSE /\ eventName' = SelectEventName(validAttendees, cancelledAttendees)
            /\ allAttendees' = Combine(validAttendees, cancelledAttendees)
            /\ SetMaps(EmptyMaps)
            /\ processedCount' = 0
            /\ pc' = "loop"
            /\ UNCHANGED <<inputs, globalSets, rows, gatewayRows, salesChannelRows, result>>
            /\ UNCHANGED <<table, page>>

\* Mutant: a record is counted by the list it came in, not by its status.
ProcessAttendee_CountsByList ==
    /\ pc = "loop"
    /\ processedCount < Len(allAttendees)
    /\ processedCount' = processedCount + 1
    /\ \E m \in {Accumulate(CurrentMaps,
                    [allAttendees[processedCount + 1] EXCEPT !.status =
                        IF processedCount + 1 <= Len(validAttendees)
                        THEN "Valid" ELSE "Cancelled"])} : SetMaps(m)
    /\ UNCHANGED <<inputs, pc, eventName, allAttendees, globalSets,
                   rows, gatewayRows, salesChannelRows, result>>
    /\ UNCHANGED <<table, page>>

\* One iteration of the main loop.
ProcessAttendee ==
    /\ pc = "loop"
    /\ processedCount < Len(allAttendees)
    /\ processedCount' = processedCount + 1
    /\ \E m \in {Accumulate(CurrentMaps, allAttendees[processedCount + 1])} : SetMaps(m)
    /\ UNCHANGED <<inputs, pc, eventName, allAttendees, globalSets,
                   rows, gatewayRows, salesChannelRows, result>>
    /\ UNCHANGED <<table, page>>

\* Mutant: the key lists are collected without waiting for the end of the loop.
CollectDimensions_BeforeLoopEnd ==
    /\ pc = "loop"
    /\ allGateways' = CollectKeys(gatewayMap)
    /\ allTicketTypes' = CollectKeys(ticketTypeMap)
    /\ allSalesChannels' = CollectKeys(salesChannelMap)
    /\ pc' = "rows"
    /\ UNCHANGED <<inputs, eventName, allAttendees, processedCount, maps,
                   rows, gatewayRows, salesChannelRows, result>>
    /\ UNCHANGED <<table, page>>

\* The loop is over: the three global sorted key lists.
CollectDimensions ==
    /\ pc = "loop"
    /\ processedCount = Len(allAttendees)
    /\ allGateways' = CollectKeys(gatewayMap)
    /\ allTicketTypes' = CollectKeys(ticketTypeMap)
    /\ allSalesChannels' = CollectKeys(salesChannelMap)
    /\ pc' = "rows"
    /\ UNCHANGED <<inputs, eventName, allAttendees, processedCount, maps,
                   rows, gatewayRows, salesChannelRows, result>>
    /\ UNCHANGED <<table, page>>

AttachTicketTypeRows ==
    /\ pc = "rows"
    /\ rows' = BuildRows(CurrentMaps, allGateways, allSalesChannels)
    /\ pc' = "gatewayRows"
    /\ UNCHANGED <<inputs, eventName, allAttendees, processedCount, maps, globalSets,
                   gatewayRows, salesChannelRows, result>>
    /\ UNCHANGED <<table, page>>

AttachGatewayRows ==
    /\ pc = "gatewayRows"
    /\ gatewayRows' = BuildGatewayRows(CurrentMaps, allTicketTypes, allSalesChannels)
    /\ pc' = "salesChannelRows"
    /\ UNCHANGED <<inputs, eventName, allAttendees, processedCount, maps, globalSets,
                   rows, salesChannelRows, result>>
    /\ UNCHANGED <<table, page>>

AttachSalesChannelRows ==
    /\ pc = "salesChannelRows"
    /\ salesChannelRows' = BuildSalesChannelRows(CurrentMaps, allTicketTypes, allGateways)
    /\ pc' = "return"
    /\ UNCHANGED <<inputs, eventName, allAttendees, processedCount, maps, globalSets,
                   rows, gatewayRows, result>>
    /\ UNCHANGED <<table, page>>

Return ==
    /\ pc = "return"
    /\ result' = [eventName |-> eventName, rows |-> rows,
                  gatewayRows |-> gatewayRows, salesChannelRows |-> salesChannelRows]
    /\ pc' = "done"
    /\ UNCHANGED <<inputs, eventName, allAttendees, processedCount, maps, globalSets,
                   rows, gatewayRows, salesChannelRows>>
    /\ UNCHANGED <<table, page>>

Next ==
    \/ Start
    \/ ProcessAttendee
    \/ CollectDimensions
    \/ AttachTicketTypeRows
    \/ AttachGatewayRows
    \/ AttachSalesChannelRows
    \/ Return

Spec == Init /\ [][Next]_vars

Done == pc = "done"

\* The step machine returns what the function computes.
MachineAgrees == Done => result = generateReport(validAttendees, cancelledAttendees)

----------------------------------------------------------------------------
(* The column registry (reportColumns.ts) *)

\* A ReportColumn.  `name` is the identity of the exported constant,
\* extractValue is the name of the row field the extractor reads, and a
\* formatter that is not given is Undefined.
ReportColumn(name, id, label, formatValue, csvFormatValue) ==
    [name |-> name, id |-> id, label |-> label, extractValue |-> id,
     formatValue |-> formatValue, csvFormatValue |-> csvFormatValue]

TICKET_TYPE_COLUMN ==
    ReportColumn("TICKET_TYPE_COLUMN", "ticketType", "Ticket Type", Undefined, Undefined)

GATEWAY_COLUMN ==
    ReportColumn("GATEWAY_COLUMN", "gateway", "Gateway", Undefined, Undefined)

GATEWAY_BREAKDOWN_COLUMN ==
    ReportColumn("GATEWAY_BREAKDOWN_COLUMN", "gateway", "Gateway", Undefined, Undefined)

TICKET_TYPE_BREAKDOWN_COLUMN ==
    ReportColumn("TICKET_TYPE_BREAKDOWN_COLUMN", "ticketType", "Ticket Type",
                 Undefined, Undefined)

\* PAID_COLUMN carries its two formatters inline; they are the same functions
\* as currencyFormatter and currencyCsvFormatter.
PAID_COLUMN ==
    ReportColumn("PAID_COLUMN", "totalPaid", "Paid",
                 "currencyFormatter", "currencyCsvFormatter")

VALID_TICKETS_COLUMN ==
    ReportColumn("VALID_TICKETS_COLUMN", "validCount", "Valid Tickets", Undefined, Undefined)

CANCELLED_TICKETS_COLUMN ==
    ReportColumn("CANCELLED_TICKETS_COLUMN", "cancelledCount", "Cancelled Tickets",
                 Undefined, Undefined)

\* A monetary column: formatValue: currencyFormatter, csvFormatValue: currencyCsvFormatter.
CurrencyColumn(name, id, label) ==
    ReportColumn(name, id, label, "currencyFormatter", "currencyCsvFormatter")

HUMANITIX_PASSED_ON_FEES_COLUMN ==
    CurrencyColumn("HUMANITIX_PASSED_ON_FEES_COLUMN", "humanitixPassedOnFees",
                   "Humanitix passed-on fees")

HUMANITIX_ABSORBED_FEES_COLUMN ==
    CurrencyColumn("HUMANITIX_ABSORBED_FEES_COLUMN", "humanitixAbsorbedFees",
                   "Humanitix absorbed fees")

AMEX_SURCHARGE_COLUMN ==
    CurrencyColumn("AMEX_SURCHARGE_COLUMN", "amexSurcharge", "Amex surcharge")

CUSTOM_TAX_COLUMN ==
    CurrencyColumn("CUSTOM_TAX_COLUMN", "customTax", "Custom tax")

ZIP_FEE_ABSORBED_COLUMN ==
    CurrencyColumn("ZIP_FEE_ABSORBED_COLUMN", "zipFeeAbsorbed", "Zip fee(absorbed)")

AFTERPAY_FEE_ABSORBED_COLUMN ==
    CurrencyColumn("AFTERPAY_FEE_ABSORBED_COLUMN", "afterpayFeeAbsorbed",
                   "Afterpay fee(absorbed)")

REFUNDS_COLUMN ==
    CurrencyColumn("REFUNDS_COLUMN", "refunds", "Refunds")

FEE_REBATE_COLUMN ==
    CurrencyColumn("FEE_REBATE_COLUMN", "feeRebate", "Fee rebate")

YOUR_EARNINGS_COLUMN ==
    CurrencyColumn("YOUR_EARNINGS_COLUMN", "yourEarnings", "Your earnings")

REFUNDED_FEES_COLUMN ==
    CurrencyColumn("REFUNDED_FEES_COLUMN", "refundedFees", "Refunded fees")

DISCOUNT_REDEEMED_COLUMN ==
    CurrencyColumn("DISCOUNT_REDEEMED_COLUMN", "discountRedeemed", "Discount redeemed")

TAX_ON_SALES_COLUMN ==
    CurrencyColumn("TAX_ON_SALES_COLUMN", "taxOnSales", "Tax on sales")

TAX_ON_BOOKING_FEES_COLUMN ==
    CurrencyColumn("TAX_ON_BOOKING_FEES_COLUMN", "taxOnBookingFees", "Tax on booking fees")

\* Mutant: the last metric column is not pushed.
MetricColumns_WithoutLast ==
    << PAID_COLUMN, VALID_TICKETS_COLUMN, CANCELLED_TICKETS_COLUMN,
       HUMANITIX_PASSED_ON_FEES_COLUMN, HUMANITIX_ABSORBED_FEES_COLUMN,
       AMEX_SURCHARGE_COLUMN, CUSTOM_TAX_COLUMN, ZIP_FEE_ABSORBED_COLUMN,
       AFTERPAY_FEE_ABSORBED_COLUMN, REFUNDS_COLUMN, FEE_REBATE_COLUMN,
       YOUR_EARNINGS_COLUMN, REFUNDED_FEES_COLUMN, DISCOUNT_REDEEMED_COLUMN,
       TAX_ON_SALES_COLUMN >>

\* columns.push(PAID_COLUMN, ..., TAX_ON_BOOKING_FEES_COLUMN)
MetricColumns ==
    << PAID_COLUMN, VALID_TICKETS_COLUMN, CANCELLED_TICKETS_COLUMN,
       HUMANITIX_PASSED_ON_FEES_COLUMN, HUMANITIX_ABSORBED_FEES_COLUMN,
       AMEX_SURCHARGE_COLUMN, CUSTOM_TAX_COLUMN, ZIP_FEE_ABSORBED_COLUMN,
       AFTERPAY_FEE_ABSORBED_COLUMN, REFUNDS_COLUMN, FEE_REBATE_COLUMN,
       YOUR_EARNINGS_COLUMN, REFUNDED_FEES_COLUMN, DISCOUNT_REDEEMED_COLUMN,
       TAX_ON_SALES_COLUMN, TAX_ON_BOOKING_FEES_COLUMN >>

\* if (primaryDimension === 'ticketType') ... else ...: every value other
\* than 'ticketType' takes the gateway branch.
PrimaryColumn(dimension) ==
    IF dimension = "ticketType" THEN TICKET_TYPE_COLUMN ELSE GATEWAY_COLUMN

BreakdownColumn(dimension) ==
    IF dimension = "ticketType" THEN GATEWAY_BREAKDOWN_COLUMN
    ELSE TICKET_TYPE_BREAKDOWN_COLUMN

getColumnsForView(dimension, hasBreakdown) ==
    <<PrimaryColumn(dimension)>>
        \o (IF hasBreakdown THEN <<BreakdownColumn(dimension)>> ELSE <<>>)
        \o MetricColumns

\* Mutant: the table columns are those of the CSV.
getColumnsForTable_AsView(dimension, hasBreakdown) ==
    getColumnsForView(dimension, hasBreakdown)

\* The same function without the breakdown branch.
getColumnsForTable(dimension, hasBreakdown) ==
    <<PrimaryColumn(dimension)>> \o MetricColumns

----------------------------------------------------------------------------
(* Cell values and their formatting (reportColumns.ts, ReportTable script) *)

\* A JavaScript value read from a row.  A number is held by its value in
\* hundredths: amounts are kept in minor units, counts are whole numbers.
JsUndefined == [kind |-> "undefined"]

JsString(str) == [kind |-> "string", string |-> str]

JsNumber(hundredths) == [kind |-> "number", hundredths |-> hundredths]

CountFields == {"validCount", "cancelledCount"}

\* column.extractValue(row): (row) => row.<field>
getColumnValue(col, row) ==
    IF col.extractValue \notin DOMAIN row THEN JsUndefined
    ELSE IF col.extractValue \in NumericFields THEN JsNumber(row[col.extractValue])
    ELSE IF col.extractValue \in CountFields THEN JsNumber(row[col.extractValue] * 100)
    ELSE JsString(row[col.extractValue])

Abs(n) == IF n < 0 THEN -n ELSE n

Sign(n) == IF n < 0 THEN "-" ELSE ""

TwoDigits(n) == IF n < 10 THEN "0" \o ToString(n) ELSE ToString(n)

ThreeDigits(n) == IF n < 100 THEN "0" \o TwoDigits(n) ELSE ToString(n)

\* The integer part with the en-US grouping separator.
RECURSIVE Grouped(_)
Grouped(n) ==
    IF n < 1000 THEN ToString(n)
    ELSE Grouped(n \div 1000) \o "," \o ThreeDigits(n % 1000)

\* String(value) of a number: the shortest decimal form.
NumberToString(h) ==
    Sign(h) \o ToString(Abs(h) \div 100)
        \o (IF Abs(h) % 100 = 0 THEN ""
            ELSE IF Abs(h) % 10 = 0 THEN "." \o ToString((Abs(h) % 100) \div 10)
            ELSE "." \o TwoDigits(Abs(h) % 100))

\* String(value)
String(value) ==
    CASE value.kind = "string" -> value.string
      [] value.kind = "number" -> NumberToString(value.hundredths)
      [] value.kind = "undefined" -> "undefined"

\* new Intl.NumberFormat('en-US', { style: 'currency', currency: 'USD' }).format(value)
currencyFormatter(value) ==
    IF value.kind = "number"
    THEN Sign(value.hundredths) \o "$" \o Grouped(Abs(value.hundredths) \div 100)
             \o "." \o TwoDigits(Abs(value.hundredths) % 100)
    ELSE "$NaN"

\* (value: number) => value.toFixed(2); a value that is not a number has no toFixed.
currencyCsvFormatter(value) ==
    IF value.kind = "number"
    THEN Sign(value.hundredths) \o ToString(Abs(value.hundredths) \div 100)
             \o "." \o TwoDigits(Abs(value.hundredths) % 100)
    ELSE TypeError

\* The call of a formatter held by a column.
ApplyFormatter(formatter, value) ==
    CASE formatter = "currencyFormatter" -> currencyFormatter(value)
      [] formatter = "currencyCsvFormatter" -> currencyCsvFormatter(value)

formatColumnValue(col, row) ==
    IF col.formatValue # Undefined
    THEN ApplyFormatter(col.formatValue, getColumnValue(col, row))
    ELSE String(getColumnValue(col, row))

\* Mutant: the CSV text is the on-screen text.
formatColumnValueForCsv_AsOnScreen(col, row) == formatColumnValue(col, row)

formatColumnValueForCsv(col, row) ==
    IF col.csvFormatValue # Undefined
    THEN ApplyFormatter(col.csvFormatValue, getColumnValue(col, row))
    ELSE IF col.formatValue # Undefined
    THEN ApplyFormatter(col.formatValue, getColumnValue(col, row))
    ELSE String(getColumnValue(col, row))

----------------------------------------------------------------------------
(* Calls of the column functions and of the cell formatters *)

PrimaryDimensions == {"ticketType", "gateway", "salesChannel"}

BreakdownTypes == {"none", "gateway", "ticketType", "salesChannel"}

\* The columns of the registry.
RegistryColumns ==
    {TICKET_TYPE_COLUMN, GATEWAY_COLUMN, GATEWAY_BREAKDOWN_COLUMN,
     TICKET_TYPE_BREAKDOWN_COLUMN} \cup {MetricColumns[k] : k \in 1..Len(MetricColumns)}

\* Columns the ReportColumn interface allows and the registry does not hold:
\* one with formatValue alone and one with csvFormatValue alone.
OtherColumns ==
    { ReportColumn("FORMAT_ONLY", "refunds", "Refunds", "currencyFormatter", Undefined),
      ReportColumn("CSV_FORMAT_ONLY", "refunds", "Refunds", Undefined, "currencyCsvFormatter") }

\* A primary row or breakdown entry with a key, two counts and amounts; the
\* fee fields get pairwise different values seed * k.
SampleRow(keyField, key, totalPaid, validCount, cancelledCount, seed) ==
    [f \in {keyField, "totalPaid", "validCount", "cancelledCount"} \cup FeeFieldSet |->
        CASE f = keyField -> key
          [] f = "totalPaid" -> totalPaid
          [] f = "validCount" -> validCount
          [] f = "cancelledCount" -> cancelledCount
          [] OTHER -> seed * (CHOOSE k \in 1..Len(FeeFields) : FeeFields[k] = f)]

\* Amounts in minor units: 1234567.00, 0.50 and -12.34 with fees in steps
\* of 0.07, 10.00 and -1.05.
SampleRows ==
    { SampleRow("ticketType", "GA", 123456700, 2, 1, 7),
      SampleRow("gateway", "Stripe", 50, 0, 12, 1000),
      SampleRow("salesChannel", "Online", -1234, 1, 0, -105) }

\* The report table with its selections made and one cell chosen.
ColumnInit ==
    /\ validAttendees = <<>>
    /\ cancelledAttendees = <<>>
    /\ pc = "idle"
    /\ eventName = ""
    /\ allAttendees = <<>>
    /\ processedCount = 0
    /\ MapsEmpty
    /\ allGateways = <<>>
    /\ allTicketTypes = <<>>
    /\ allSalesChannels = <<>>
    /\ rows = <<>>
    /\ gatewayRows = <<>>
    /\ salesChannelRows = <<>>
    /\ result = NotYet
    /\ primaryDimension \in PrimaryDimensions
    /\ breakdownType \in BreakdownTypes
    /\ column \in RegistryColumns \cup OtherColumns
    /\ cellRow \in SampleRows
    /\ viewColumns = NotYet
    /\ tableColumns = NotYet
    /\ csvText = NoText
    /\ screenText = NoText
    /\ PageIdle

\* getColumnsForCsv(): the third argument is not a parameter of
\* getColumnsForView and is dropped by the call.
getColumnsForCsv ==
    /\ viewColumns = NotYet
    /\ viewColumns' = getColumnsForView(primaryDimension, breakdownType # "none")
    /\ UNCHANGED page
    /\ UNCHANGED <<call, primaryDimension, breakdownType, column, cellRow,
                   tableColumns, csvText, screenText>>

\* getColumns()
getColumns ==
    /\ tableColumns = NotYet
    /\ tableColumns' = getColumnsForTable(primaryDimension, breakdownType # "none")
    /\ UNCHANGED page
    /\ UNCHANGED <<call, primaryDimension, breakdownType, column, cellRow,
                   viewColumns, csvText, screenText>>

\* A cell of the CSV is written.
WriteCsvCell ==
    /\ csvText = NoText
    /\ csvText' = formatColumnValueForCsv(column, cellRow)
    /\ UNCHANGED page
    /\ UNCHANGED <<call, primaryDimension, breakdownType, column, cellRow,
                   viewColumns, tableColumns, screenText>>

\* A cell of the table is rendered.
RenderCell ==
    /\ screenText = NoText
    /\ screenText' = formatColumnValue(column, cellRow)
    /\ UNCHANGED page
    /\ UNCHANGED <<call, primaryDimension, breakdownType, column, cellRow,
                   viewColumns, tableColumns, csvText>>

ColumnNext ==
    \/ getColumnsForCsv
    \/ getColumns
    \/ WriteCsvCell
    \/ RenderCell

ColumnSpec == ColumnInit /\ [][ColumnNext]_vars

----------------------------------------------------------------------------
(* CSV export of the report table (src/src/lib/csvParser.ts) *)

\* Texts are strings; CharAt and From take them apart.
CharAt(str, i) == SubSeq(str, i, i)

From(str, i) == SubSeq(str, i, Len(str))

\* str.includes(ch) for a one-character ch
Includes(str, ch) == \E i \in 1..Len(str) : CharAt(str, i) = ch

\* str.replace(/"/g, '""')
RECURSIVE DoubleQuotes(_)
DoubleQuotes(str) ==
    IF Len(str) = 0
    THEN ""
    ELSE (IF CharAt(str, 1) = "\"" THEN "\"\"" ELSE CharAt(str, 1))
             \o DoubleQuotes(From(str, 2))

\* Mutant: the field is wrapped without doubling its quotes.
escapeCsvField_QuotesNotDoubled(str) ==
    IF Includes(str, ",") \/ Includes(str, "\"") \/ Includes(str, "\n")
    THEN "\"" \o str \o "\""
    ELSE str

\* escapeCsvField(field) for a string field, for which String(field) is the
\* field itself.
escapeCsvField(str) ==
    IF Includes(str, ",") \/ Includes(str, "\"") \/ Includes(str, "\n")
    THEN "\"" \o DoubleQuotes(str) \o "\""
    ELSE str

\* The characters the fields are made of, and the longest field.
FieldAlphabet == {"a", " ", ",", "\"", "\n", "\r"}

MaxFieldLen == 3

RECURSIVE TextsOfLen(_)
TextsOfLen(n) ==
    IF n = 0 THEN {""}
    ELSE {t \o c : t \in TextsOfLen(n - 1), c \in FieldAlphabet}

SampleFields == UNION {TextsOfLen(n) : n \in 0..MaxFieldLen}

\* A field is about to be written to the CSV.
EscapeInit ==
    /\ CallIdle
    /\ TableIdle
    /\ csvField \in SampleFields
    /\ escaped = NoText
    /\ reportData = NotYet
    /\ csv = NoText
    /\ SelectionIdle
    /\ UploadIdle

EscapeField ==
    /\ escaped = NoText
    /\ escaped' = escapeCsvField(csvField)
    /\ UNCHANGED csvField
    /\ UNCHANGED besidesEscape

EscapeNext == EscapeField

EscapeSpec == EscapeInit /\ [][EscapeNext]_vars

\* array.join(separator) on an array of strings
RECURSIVE Join(_, _)
Join(texts, separator) ==
    IF Len(texts) = 0 THEN ""
    ELSE IF Len(texts) = 1 THEN texts[1]
    ELSE texts[1] \o separator \o Join(Tail(texts), separator)

\* reportData is null
IsNull(report) == DOMAIN report = {}

\* The row array generateCsv walks for a primary dimension.
PrimaryRows(report, dimension) ==
    CASE dimension = "ticketType" -> report.rows
      [] dimension = "gateway" -> report.gatewayRows
      [] dimension = "salesChannel" -> report.salesChannelRows

\* The breakdown array generateCsv reads for a breakdown type.
BreakdownArrayName(breakdown) ==
    CASE breakdown = "gateway" -> "gatewayBreakdown"
      [] breakdown = "ticketType" -> "ticketTypeBreakdown"
      [] breakdown = "salesChannel" -> "salesChannelBreakdown"

\* hasBreakdown && breakdownType === '<other dimension>' && row.<array> &&
\* row.<array>.length > 0, for the two other dimensions of each primary one
Expanded(dimension, breakdown, row) ==
    /\ breakdown \in PrimaryDimensions \ {dimension}
    /\ BreakdownArrayName(breakdown) \in DOMAIN row
    /\ Len(row[BreakdownArrayName(breakdown)]) > 0

\* The fields of the line of a breakdown entry: the column with the id of
\* the primary dimension reads the primary row, every other column the entry.
BreakdownCsvRow(columns, dimension, row, entry) ==
    [k \in 1..Len(columns) |->
        escapeCsvField(formatColumnValueForCsv(columns[k],
            IF columns[k].id = dimension THEN row ELSE entry))]

\* Just the summary row
SummaryCsvRow(columns, row) ==
    [k \in 1..Len(columns) |->
        escapeCsvField(formatColumnValueForCsv(columns[k], row))]

\* Mutant: a summary line precedes the lines of the breakdown entries.
RowLines_SummaryFirst(columns, dimension, breakdown, row) ==
    IF Expanded(dimension, breakdown, row)
    THEN <<Join(SummaryCsvRow(columns, row), ",")>> \o
         [j \in 1..Len(row[BreakdownArrayName(breakdown)]) |->
            Join(BreakdownCsvRow(columns, dimension, row,
                                 row[BreakdownArrayName(breakdown)][j]), ",")]
    ELSE <<Join(SummaryCsvRow(columns, row), ",")>>

\* The lines pushed for one primary row.
RowLines(columns, dimension, breakdown, row) ==
    IF Expanded(dimension, breakdown, row)
    THEN [j \in 1..Len(row[BreakdownArrayName(breakdown)]) |->
            Join(BreakdownCsvRow(columns, dimension, row,
                                 row[BreakdownArrayName(breakdown)][j]), ",")]
    ELSE <<Join(SummaryCsvRow(columns, row), ",")>>

\* for (const row of ...) { ... lines.push(...) }
RECURSIVE DataLines(_, _, _, _)
DataLines(columns, dimension, breakdown, primaryRows) ==
    IF Len(primaryRows) = 0 THEN <<>>
    ELSE RowLines(columns, dimension, breakdown, Head(primaryRows))
             \o DataLines(columns, dimension, breakdown, Tail(primaryRows))

\* The text generateCsv() returns for a report and the two selections.
CsvOf(report, dimension, breakdown) ==
    IF IsNull(report) THEN ""
    ELSE LET currentColumns == getColumnsForView(dimension, breakdown # "none")
             headers == [k \in 1..Len(currentColumns) |->
                            escapeCsvField(currentColumns[k].label)]
         IN Join(<<Join(headers, ",")>> \o
                 DataLines(currentColumns, dimension, breakdown,
                           PrimaryRows(report, dimension)), "\n")

\* The attendee records of the reports that are exported.
ExportAttendees ==
    << Attendee("Gala", "GA",        100, "Valid",     "Stripe",  "Online",      1),
       Attendee("Gala", "VIP, Gold", 250, "Valid",     "PayPal",  "Box \"A\"",   2),
       Attendee("Gala", "GA",         70, "Cancelled", "Stripe",  "Online",     -1),
       Attendee("Gala", "VIP, Gold",  30, "Cancelled", Undefined, Undefined,     3),
       Attendee("Gala", "GA",         55, "Valid",     "PayPal",  Undefined,     0) >>

\* The reports the table is given: none, and those of some attendee lists.
SampleReports ==
    { NotYet,
      generateReport(<<>>, <<>>),
      generateReport(<<ExportAttendees[1]>>, <<>>),
      generateReport(<<ExportAttendees[1], ExportAttendees[2]>>, <<ExportAttendees[3]>>),
      generateReport(<<ExportAttendees[2]>>, <<ExportAttendees[4]>>),
      generateReport(<<ExportAttendees[5]>>, <<ExportAttendees[4]>>),
      generateReport(<<ExportAttendees[1], ExportAttendees[5]>>,
                     <<ExportAttendees[3], ExportAttendees[4]>>),
      generateReport(<<ExportAttendees[2], ExportAttendees[5]>>, <<ExportAttendees[3]>>) }

\* The table shows a report; the effect that keeps the breakdown different
\* from the primary dimension has run.
ExportInit ==
    /\ CallIdle
    /\ primaryDimension \in PrimaryDimensions
    /\ breakdownType \in BreakdownTypes \ {primaryDimension}
    /\ column = NotYet
    /\ cellRow = NotYet
    /\ viewColumns = NotYet
    /\ tableColumns = NotYet
    /\ csvText = NoText
    /\ screenText = NoText
    /\ csvField = NoText
    /\ escaped = NoText
    /\ reportData \in SampleReports
    /\ csv = NoText
    /\ SelectionIdle
    /\ UploadIdle

\* generateCsv()
generateCsv ==
    /\ csv = NoText
    /\ csv' = CsvOf(reportData, primaryDimension, breakdownType)
    /\ UNCHANGED reportData
    /\ UNCHANGED besidesExport

ExportNext == generateCsv

ExportSpec == ExportInit /\ [][ExportNext]_vars

----------------------------------------------------------------------------
(* Selections of the report table (src/src/lib/csvParser.ts) *)

\* The keys of the rows shown and the dates of the date filter.
SampleKeys == {"GA", "VIP"}

SampleDates == {"2026-03-01", "2026-03-02", "2026-03-03"}

\* The component is mounted: its $effect is due for its first run.
TableInit ==
    /\ CallIdle
    /\ TableIdle
    /\ csvField = NoText
    /\ escaped = NoText
    /\ reportData = NotYet
    /\ csv = NoText
    /\ expandedRows = {}
    /\ effectPending = TRUE
    /\ selectedDates = {"all"}
    /\ UploadIdle

\* onchange of a primary-dimension radio button.  Event handlers run when no
\* effect is due; a write that changes a $state the effect reads schedules it.
SelectPrimaryDimension(dimension) ==
    /\ ~effectPending
    /\ primaryDimension' = dimension
    /\ effectPending' = (dimension # primaryDimension)
    /\ UNCHANGED <<breakdownType, expandedRows, selectedDates>>
    /\ UNCHANGED besidesSelection

\* onchange of a breakdown radio button; the buttons shown are 'none' and
\* the two dimensions other than the primary one.
SelectBreakdown(breakdown) ==
    /\ ~effectPending
    /\ breakdown # primaryDimension
    /\ breakdownType' = breakdown
    /\ effectPending' = (breakdown # breakdownType)
    /\ UNCHANGED <<primaryDimension, expandedRows, selectedDates>>
    /\ UNCHANGED besidesSelection

\* toggleRow(key)
toggleRow(key) ==
    /\ ~effectPending
    /\ expandedRows' = IF key \in expandedRows
                        THEN expandedRows \ {key}
                        ELSE expandedRows \cup {key}
    /\ UNCHANGED <<primaryDimension, breakdownType, effectPending, selectedDates>>
    /\ UNCHANGED besidesSelection

\* Mutant: the effect knows two dimensions.
ResetBreakdownEffect_TwoDimensions ==
    /\ effectPending
    /\ breakdownType' =
          IF primaryDimension = "ticketType" /\ breakdownType = "ticketType" THEN "none"
          ELSE IF primaryDimension = "gateway" /\ breakdownType = "gateway" THEN "none"
          ELSE breakdownType
    /\ expandedRows' = {}
    /\ effectPending' = FALSE
    /\ UNCHANGED <<primaryDimension, selectedDates>>
    /\ UNCHANGED besidesSelection

\* $effect(() => { ... }): reset the breakdown, clear the expanded rows.
ResetBreakdownEffect ==
    /\ effectPending
    /\ breakdownType' =
          IF primaryDimension = "ticketType" /\ breakdownType = "ticketType" THEN "none"
          ELSE IF primaryDimension = "gateway" /\ breakdownType = "gateway" THEN "none"
          ELSE IF primaryDimension = "salesChannel" /\ breakdownType = "salesChannel"
          THEN "none"
          ELSE breakdownType
    /\ expandedRows' = {}
    /\ effectPending' = FALSE
    /\ UNCHANGED <<primaryDimension, selectedDates>>
    /\ UNCHANGED besidesSelection

\* Mutant: unchecking the last date leaves nothing selected.
handleDateSelection_MayLeaveNone(dateStr) ==
    /\ ~effectPending
    /\ selectedDates' =
          IF dateStr = "all"
          THEN IF "all" \in selectedDates THEN selectedDates \ {"all"} ELSE {"all"}
          ELSE LET withoutAll == selectedDates \ {"all"}
               IN IF dateStr \in withoutAll
                  THEN withoutAll \ {dateStr}
                  ELSE withoutAll \cup {dateStr}
    /\ UNCHANGED <<primaryDimension, breakdownType, expandedRows, effectPending>>
    /\ UNCHANGED besidesSelection

\* handleDateSelection(dateStr)
handleDateSelection(dateStr) ==
    /\ ~effectPending
    /\ selectedDates' =
          IF dateStr = "all"
          THEN IF "all" \in selectedDates THEN selectedDates \ {"all"} ELSE {"all"}
          ELSE LET withoutAll == selectedDates \ {"all"}
               IN IF dateStr \in withoutAll
                  THEN IF withoutAll \ {dateStr} = {}
                       THEN {"all"}
                       ELSE withoutAll \ {dateStr}
                  ELSE withoutAll \cup {dateStr}
    /\ UNCHANGED <<primaryDimension, breakdownType, expandedRows, effectPending>>
    /\ UNCHANGED besidesSelection

TableNext ==
    \/ \E dimension \in PrimaryDimensions : SelectPrimaryDimension(dimension)
    \/ \E breakdown \in BreakdownTypes : SelectBreakdown(breakdown)
    \/ \E key \in SampleKeys : toggleRow(key)
    \/ ResetBreakdownEffect
    \/ \E dateStr \in {"all"} \cup SampleDates : handleDateSelection(dateStr)

TableSpec == TableInit /\ [][TableNext]_vars

----------------------------------------------------------------------------
(* The upload component (src/src/components/CsvUpload.svelte) *)

\* The files the user chooses from.
ValidFiles == {"valid-1.csv", "valid-2.csv"}

CancelledFiles == {"cancelled-1.csv", "cancelled-2.csv"}

\* The calls of processFiles that are followed.
MaxInvocations == 3

\* The attendee list parseCSVFile(file, status) resolves to.
Parsed(file, status) == [parsedFrom |-> file, status |-> status]

\* The component is mounted, nothing was found in storage.
UploadInit ==
    /\ CallIdle
    /\ TableIdle
    /\ csvField = NoText
    /\ escaped = NoText
    /\ reportData = NotYet
    /\ csv = NoText
    /\ SelectionIdle
    /\ UploadIdle

\* processFiles() up to its first await: nothing without both files;
\* otherwise the busy indicator is set and parseCSVFile(validFile, 'Valid')
\* is called with the file selected now.
StartProcessFiles(valid, cancelled) ==
    IF valid = NoFile \/ cancelled = NoFile
    THEN UNCHANGED <<processing, invocations, startedCount>>
    ELSE /\ startedCount < MaxInvocations
         /\ processing' = TRUE
         /\ invocations' = Append(invocations,
                [pc |-> "parseValid", parsingFile |-> valid,
                 parsedValidAttendees |-> NotYet, parsedCancelledAttendees |-> NotYet])
         /\ startedCount' = startedCount + 1

\* handleValidFileChange(event) with a file chosen in the input of the
\* expanded panel
handleValidFileChange(file) ==
    /\ uploadPanelExpanded
    /\ file # validFile
    /\ validFile' = file
    /\ StartProcessFiles(file, cancelledFile)
    /\ UNCHANGED <<cancelledFile, storageProgress, uploadPanelExpanded, delivered>>
    /\ UNCHANGED besidesUpload

\* handleCancelledFileChange(event)
handleCancelledFileChange(file) ==
    /\ uploadPanelExpanded
    /\ file # cancelledFile
    /\ cancelledFile' = file
    /\ StartProcessFiles(validFile, file)
    /\ UNCHANGED <<validFile, storageProgress, uploadPanelExpanded, delivered>>
    /\ UNCHANGED besidesUpload

Without(list, i) == SubSeq(list, 1, i - 1) \o SubSeq(list, i + 1, Len(list))

\* The first parse of a call resolves: the call goes on to
\* parseCSVFile(cancelledFile, 'Cancelled') with the file selected now.
ValidParsed(i) ==
    /\ i \in 1..Len(invocations)
    /\ invocations[i].pc = "parseValid"
    /\ invocations' = [invocations EXCEPT ![i] =
          [pc |-> "parseCancelled", parsingFile |-> cancelledFile,
           parsedValidAttendees |-> Parsed(invocations[i].parsingFile, "Valid"),
           parsedCancelledAttendees |-> NotYet]]
    /\ UNCHANGED <<validFile, cancelledFile, processing, storageProgress,
                   uploadPanelExpanded, startedCount, delivered>>
    /\ UNCHANGED besidesUpload

\* The second parse resolves: storageProgress = 0 and storeAttendeeData is
\* called.
CancelledParsed(i) ==
    /\ i \in 1..Len(invocations)
    /\ invocations[i].pc = "parseCancelled"
    /\ invocations' = [invocations EXCEPT ![i] =
          [pc |-> "store", parsingFile |-> NoFile,
           parsedValidAttendees |-> invocations[i].parsedValidAttendees,
           parsedCancelledAttendees |-> Parsed(invocations[i].parsingFile, "Cancelled")]]
    /\ storageProgress' = 0
    /\ UNCHANGED <<validFile, cancelledFile, processing,
                   uploadPanelExpanded, startedCount, delivered>>
    /\ UNCHANGED besidesUpload

\* The store settles (resolved or rejected, storageProgress = null either
\* way): the lists are delivered through onDataParsed, the panel collapses,
\* and the finally block clears the busy indicator.
Stored(i) ==
    /\ i \in 1..Len(invocations)
    /\ invocations[i].pc = "store"
    /\ storageProgress' = NoProgress
    /\ delivered' = [validAttendees |-> invocations[i].parsedValidAttendees,
                     cancelledAttendees |-> invocations[i].parsedCancelledAttendees]
    /\ uploadPanelExpanded' = FALSE
    /\ processing' = FALSE
    /\ invocations' = Without(invocations, i)
    /\ UNCHANGED <<validFile, cancelledFile, startedCount>>
    /\ UNCHANGED besidesUpload

\* handleUploadAgain(), the button of the collapsed panel
handleUploadAgain ==
    /\ ~uploadPanelExpanded
    /\ uploadPanelExpanded' = TRUE
    /\ validFile' = NoFile
    /\ cancelledFile' = NoFile
    /\ UNCHANGED <<processing, storageProgress, invocations, startedCount, delivered>>
    /\ UNCHANGED besidesUpload

UploadNext ==
    \/ \E file \in ValidFiles : handleValidFileChange(file)
    \/ \E file \in CancelledFiles : handleCancelledFileChange(file)
    \/ \E i \in 1..MaxInvocations : ValidParsed(i)
    \/ \E i \in 1..MaxInvocations : CancelledParsed(i)
    \/ \E i \in 1..MaxInvocations : Stored(i)
    \/ handleUploadAgain

UploadSpec == UploadInit /\ [][UploadNext]_vars

----------------------------------------------------------------------------
(* Vocabulary of the properties *)

BreakdownFields == {"gatewayBreakdown", "salesChannelBreakdown", "ticketTypeBreakdown"}

\* The key field of the entries of a breakdown array.
KeyFieldOf(breakdownField) ==
    CASE breakdownField = "gatewayBreakdown" -> "gateway"
      [] breakdownField = "salesChannelBreakdown" -> "salesChannel"
      [] breakdownField = "ticketTypeBreakdown" -> "ticketType"

\* The three primary views of a ReportData, each with its key field.
Views(report) ==
    { [keyField |-> "ticketType", rows |-> report.rows],
      [keyField |-> "gateway", rows |-> report.gatewayRows],
      [keyField |-> "salesChannel", rows |-> report.salesChannelRows] }

HasBreakdown(row, d) == d \in DOMAIN row

KeySeq(entries, keyField) == [j \in 1..Len(entries) |-> entries[j][keyField]]

KeySet(entries, keyField) == {entries[j][keyField] : j \in 1..Len(entries)}

\* The input records in the order generateReport scans them.
Scanned == validAttendees \o cancelledAttendees

RECURSIVE SumField(_, _)
SumField(list, field) ==
    IF list = <<>> THEN 0 ELSE Head(list)[field] + SumField(Tail(list), field)

\* Sum of a field over the records of a list at the given positions.
RECURSIVE SumAt(_, _, _)
SumAt(list, positions, field) ==
    IF positions = {} THEN 0
    ELSE LET i == CHOOSE i \in positions : TRUE
         IN list[i][field] + SumAt(list, positions \ {i}, field)

\* The name of the attendee field a bucket field sums.
SourceField(bucketField) == IF bucketField = "totalPaid" THEN "paid" ELSE bucketField

\* A bucket holds exactly the sums and the count of the records at `positions`.
BucketMatches(bucket, positions) ==
    /\ \A f \in NumericFields : bucket[f] = SumAt(Scanned, positions, SourceField(f))
    /\ bucket.validCount + bucket.cancelledCount = Cardinality(positions)

IsZeroBucket(bucket) ==
    /\ \A f \in NumericFields : bucket[f] = 0
    /\ bucket.validCount = 0
    /\ bucket.cancelledCount = 0

----------------------------------------------------------------------------
(* C1 - sum conservation: in the returned report the sum of totalPaid over  *)
(* rows equals the sum of paid over all input records of both lists, and    *)
(* for each of the 13 fee fields the sum over rows equals the sum over all  *)
(* input records.                                                           *)

C1_SumConservation ==
    Done =>
        \A f \in NumericFields :
            SumField(result.rows, f) = SumField(Scanned, SourceField(f))

\* Two rows, one of them summing two records, with non-zero fees.
C1_Witness ==
    /\ Done
    /\ Len(Scanned) = 3
    /\ Len(result.rows) = 2
    /\ \A f \in NumericFields : SumField(result.rows, f) # 0

(* C2 - count conservation: when every record of validAttendees is Valid    *)
(* and every record of cancelledAttendees is Cancelled, the validCount of   *)
(* the rows add up to validAttendees.length and the cancelledCount to       *)
(* cancelledAttendees.length.                                               *)

StatusHomogeneous ==
    /\ \A i \in 1..Len(validAttendees) : validAttendees[i].status = "Valid"
    /\ \A i \in 1..Len(cancelledAttendees) : cancelledAttendees[i].status = "Cancelled"

C2_CountConservation ==
    (Done /\ StatusHomogeneous) =>
        /\ SumField(result.rows, "validCount") = Len(validAttendees)
        /\ SumField(result.rows, "cancelledCount") = Len(cancelledAttendees)

\* A ticket type that holds a valid and a cancelled record, both lists used.
C2_Witness ==
    /\ Done
    /\ StatusHomogeneous
    /\ Len(validAttendees) >= 1
    /\ Len(cancelledAttendees) >= 2
    /\ \E j \in 1..Len(result.rows) :
          result.rows[j].validCount >= 1 /\ result.rows[j].cancelledCount >= 1

(* C3 - density: in each of the three views, any two rows that both have a  *)
(* breakdown of dimension D have breakdown arrays of equal length with      *)
(* identical key sequences.                                                 *)

C3_Density ==
    Done =>
        \A v \in Views(result) : \A d \in BreakdownFields :
            \A i, j \in 1..Len(v.rows) :
                (HasBreakdown(v.rows[i], d) /\ HasBreakdown(v.rows[j], d)) =>
                    /\ Len(v.rows[i][d]) = Len(v.rows[j][d])
                    /\ KeySeq(v.rows[i][d], KeyFieldOf(d)) = KeySeq(v.rows[j][d], KeyFieldOf(d))

\* Two ticket types with disjoint gateways: each breakdown has a zero-filled entry.
C3_Witness ==
    /\ Done
    /\ Len(result.rows) = 2
    /\ HasBreakdown(result.rows[1], "gatewayBreakdown")
    /\ Len(result.rows[1].gatewayBreakdown) = 2
    /\ \E j \in 1..2 : IsZeroBucket(result.rows[1].gatewayBreakdown[j])
    /\ \E j \in 1..2 : IsZeroBucket(result.rows[2].gatewayBreakdown[j])

(* C4 - every bucket of the report (each primary row and each breakdown     *)
(* entry) has totalPaid and each fee field equal to the sum over its        *)
(* contributing records and validCount + cancelledCount equal to their      *)
(* number; a row's contributors carry its key, an entry's contributors      *)
(* carry the row's key and the entry's key.                                 *)

RowContributors(keyField, key) ==
    {i \in 1..Len(Scanned) : Scanned[i][keyField] = key}

EntryContributors(outerField, outerKey, innerField, innerKey) ==
    {i \in 1..Len(Scanned) :
        Scanned[i][outerField] = outerKey /\ Scanned[i][innerField] = innerKey}

C4_BucketSums ==
    Done =>
        \A v \in Views(result) : \A i \in 1..Len(v.rows) :
            /\ BucketMatches(v.rows[i], RowContributors(v.keyField, v.rows[i][v.keyField]))
            /\ \A d \in BreakdownFields :
                  HasBreakdown(v.rows[i], d) =>
                      \A j \in 1..Len(v.rows[i][d]) :
                          BucketMatches(v.rows[i][d][j],
                              EntryContributors(v.keyField, v.rows[i][v.keyField],
                                                KeyFieldOf(d), v.rows[i][d][j][KeyFieldOf(d)]))

\* A breakdown entry with two contributors next to a row with three.
C4_Witness ==
    /\ Done
    /\ \E v \in Views(result) : \E i \in 1..Len(v.rows) :
          /\ Cardinality(RowContributors(v.keyField, v.rows[i][v.keyField])) = 3
          /\ \E d \in BreakdownFields :
                /\ HasBreakdown(v.rows[i], d)
                /\ \E j \in 1..Len(v.rows[i][d]) :
                      /\ Cardinality(EntryContributors(v.keyField, v.rows[i][v.keyField],
                             KeyFieldOf(d), v.rows[i][d][j][KeyFieldOf(d)])) = 2
                      /\ v.rows[i][d][j].totalPaid # 0

(* C5 - commutativity: for all permutations A' of validAttendees and B' of  *)
(* cancelledAttendees, generateReport(A', B') contains the same buckets     *)
(* with the same counts and sums, in all three views and in every breakdown *)
(* array, as generateReport(validAttendees, cancelledAttendees).            *)

Rearrangements(list) ==
    {p \in [1..Len(list) -> 1..Len(list)] : \A i, j \in 1..Len(list) : p[i] = p[j] => i = j}

Permuted(list, p) == [i \in 1..Len(list) |-> list[p[i]]]

\* A primary row without its breakdown arrays.
Core(row) == [f \in DOMAIN row \ BreakdownFields |-> row[f]]

\* Every bucket of a report, labelled with the place it has in the report.
BucketsOf(report) ==
    UNION { {<<v.keyField, Core(v.rows[i])>> : i \in 1..Len(v.rows)}
            \cup UNION { UNION { {<<v.keyField, v.rows[i][v.keyField], d, v.rows[i][d][j]>> :
                                    j \in 1..Len(v.rows[i][d])} :
                                 d \in {d \in BreakdownFields : HasBreakdown(v.rows[i], d)} } :
                         i \in 1..Len(v.rows) } :
            v \in Views(report) }

C6_EventName ==
    Done =>
        /\ Len(validAttendees) > 0 => result.eventName = validAttendees[1].eventName
        /\ (Len(validAttendees) = 0 /\ Len(cancelledAttendees) > 0) =>
              result.eventName = cancelledAttendees[1].eventName
        /\ (Len(validAttendees) = 0 /\ Len(cancelledAttendees) = 0) =>
              result.eventName = ""

\* The first valid record, a later valid record and the first cancelled record
\* disagree about the event name.
C6_Witness ==
    /\ Done
    /\ Len(validAttendees) = 2
    /\ Len(cancelledAttendees) = 1
    /\ validAttendees[1].eventName # validAttendees[2].eventName
    /\ validAttendees[1].eventName # cancelledAttendees[1].eventName

(* C7 - called with two empty lists, generateReport runs to its return and  *)
(* returns eventName '' with rows, gatewayRows and salesChannelRows empty.  *)

C7_EmptyInput ==
    (validAttendees = <<>> /\ cancelledAttendees = <<>>) =>
        /\ Done \/ ENABLED Next
        /\ Done => /\ result.eventName = ""
                   /\ result.rows = <<>>
                   /\ result.gatewayRows = <<>>
                   /\ result.salesChannelRows = <<>>

C7_Witness == Done /\ validAttendees = <<>> /\ cancelledAttendees = <<>>

(* C8 - rows is sorted ascending by ticketType, gatewayRows by gateway and  *)
(* salesChannelRows by salesChannel, under the string ordering that also    *)
(* orders the keys of every breakdown array.                                *)

Ascending(list, keyField) ==
    \A i, j \in 1..Len(list) :
        i < j => localeCompare(list[i][keyField], list[j][keyField]) <= 0

C8_Sorted ==
    Done =>
        \A v \in Views(result) :
            /\ Ascending(v.rows, v.keyField)
            /\ \A i \in 1..Len(v.rows) : \A d \in BreakdownFields :
                  HasBreakdown(v.rows[i], d) => Ascending(v.rows[i][d], KeyFieldOf(d))

\* The keys of all three dimensions were first met in descending order.
C8_Witness ==
    /\ Done
    /\ Len(result.rows) = 2
    /\ Len(result.gatewayRows) = 2
    /\ Len(result.salesChannelRows) = 2
    /\ localeCompare(MapKeys(ticketTypeMap)[1], MapKeys(ticketTypeMap)[2]) > 0
    /\ localeCompare(MapKeys(gatewayMap)[1], MapKeys(gatewayMap)[2]) > 0
    /\ localeCompare(MapKeys(salesChannelMap)[1], MapKeys(salesChannelMap)[2]) > 0

(* C9 - a record without a gateway changes no gateway row and no bucket     *)
(* that has a gateway as outer or inner key, likewise for salesChannel,     *)
(* while its count and sums are added to the row of its ticket type; a      *)
(* record with neither changes the ticket-type row only.                    *)

Scanning == pc = "loop" /\ processedCount < Len(allAttendees)

\* The bucket of a key in a first-level map, all zero when the key is new.
BucketOrZero(m, keyField, key) ==
    IF MapHas(m, key) THEN MapGet(m, key) ELSE EmptyBreakdown(keyField, key)

TicketTypeRowGains(attendee) ==
    LET before == BucketOrZero(ticketTypeMap, "ticketType", attendee.ticketType)
        after == BucketOrZero(ticketTypeMap', "ticketType", attendee.ticketType)
    IN /\ \A f \in NumericFields : after[f] = before[f] + attendee[SourceField(f)]
       /\ after.validCount + after.cancelledCount
              = before.validCount + before.cancelledCount + 1

C9_MissingDimension ==
    [][Scanning =>
        LET attendee == allAttendees[processedCount + 1]
        IN /\ ~Truthy(attendee.gateway) =>
                  /\ UNCHANGED <<gatewayMap, gatewayBreakdownMap, ticketTypeBreakdownMap,
                                 salesChannelBreakdownMapForGateway,
                                 gatewayBreakdownMapForSalesChannel>>
                  /\ TicketTypeRowGains(attendee)
           /\ ~Truthy(attendee.salesChannel) =>
                  /\ UNCHANGED <<salesChannelMap, salesChannelBreakdownMapForTicket,
                                 ticketTypeBreakdownMapForSalesChannel,
                                 salesChannelBreakdownMapForGateway,
                                 gatewayBreakdownMapForSalesChannel>>
                  /\ TicketTypeRowGains(attendee)]_vars

\* Scanned so far: a record with both dimensions, then one with an empty
\* gateway, then one with neither gateway nor sales channel.
C9_Witness ==
    /\ pc = "loop"
    /\ processedCount = 3
    /\ Truthy(allAttendees[1].gateway) /\ Truthy(allAttendees[1].salesChannel)
    /\ allAttendees[2].gateway = "" /\ Truthy(allAttendees[2].salesChannel)
    /\ allAttendees[3].gateway = Undefined /\ allAttendees[3].salesChannel = Undefined
    /\ Len(MapKeys(ticketTypeMap)) = 2
    /\ Len(MapKeys(gatewayMap)) = 1
    /\ Len(MapKeys(salesChannelMap)) = 1

(* C10 - the ticket types that key rows are the keys of every               *)
(* ticketTypeBreakdown array of gatewayRows and salesChannelRows; the       *)
(* gateways that key gatewayRows are the keys of every gatewayBreakdown     *)
(* array of rows and salesChannelRows; the sales channels that key          *)
(* salesChannelRows are the keys of every salesChannelBreakdown array of    *)
(* rows and gatewayRows.                                                    *)

\* Some record of a ticket type has a gateway or a sales channel.
HasKeyWith(ticketType) ==
    \E i \in 1..Len(Scanned) :
        /\ Scanned[i].ticketType = ticketType
        /\ Truthy(Scanned[i].gateway) \/ Truthy(Scanned[i].salesChannel)

\* The keys of the primary view of a dimension.
PrimaryKeys(report, keyField) ==
    UNION {KeySet(v.rows, keyField) : v \in {v \in Views(report) : v.keyField = keyField}}

C10_KeySets ==
    Done =>
        \A v \in Views(result) : \A i \in 1..Len(v.rows) : \A d \in BreakdownFields :
            HasBreakdown(v.rows[i], d) =>
                KeySet(v.rows[i][d], KeyFieldOf(d)) = PrimaryKeys(result, KeyFieldOf(d))

\* A ticket type none of whose records has a gateway or a sales channel is
\* still a key of the breakdowns of the gateway and sales-channel rows.
C10_Witness ==
    /\ Done
    /\ Len(result.gatewayRows) >= 1
    /\ Len(result.salesChannelRows) >= 1
    /\ \E i \in 1..Len(result.rows) :
          /\ ~HasKeyWith(result.rows[i].ticketType)
          /\ result.rows[i].ticketType
                 \in KeySet(result.gatewayRows[1].ticketTypeBreakdown, "ticketType")

(* C11 - for every primary row of every view and every breakdown dimension  *)
(* D other than the view's own: whenever some input record supplied a       *)
(* non-empty value for D the row has a D-breakdown array (so the array is   *)
(* absent only when no record supplied D), and a breakdown array that is    *)
(* present is never empty.                                                  *)

\* Some input record carries a non-empty value of the dimension.
Supplied(keyField) == \E i \in 1..Len(Scanned) : Truthy(Scanned[i][keyField])

C11_BreakdownPresence ==
    Done =>
        \A v \in Views(result) : \A i \in 1..Len(v.rows) :
            \A d \in {d \in BreakdownFields : KeyFieldOf(d) # v.keyField} :
                /\ Supplied(KeyFieldOf(d)) => HasBreakdown(v.rows[i], d)
                /\ HasBreakdown(v.rows[i], d) => Len(v.rows[i][d]) > 0

\* Sales channels were supplied and gateways were not: a ticket type none of
\* whose records has a sales channel carries the sales-channel breakdown and
\* no gateway breakdown.
C11_Witness ==
    /\ Done
    /\ Supplied("salesChannel")
    /\ ~Supplied("gateway")
    /\ \E i \in 1..Len(result.rows) :
          /\ \A k \in RowContributors("ticketType", result.rows[i].ticketType) :
                ~Truthy(Scanned[k].salesChannel)
          /\ HasBreakdown(result.rows[i], "salesChannelBreakdown")
          /\ ~HasBreakdown(result.rows[i], "gatewayBreakdown")

(* C12 - zero fill: for a primary row keyed o and a value i of the global   *)
(* set of a breakdown dimension D such that no input record carries both o  *)
(* and i, the row's D-breakdown has exactly one entry keyed i, and that     *)
(* entry has totalPaid 0, validCount 0, cancelledCount 0 and all 13 fee     *)
(* fields 0.  For GA/Stripe/100, GA/PayPal/50 and VIP/Stripe/200 the        *)
(* gateway breakdown of GA is PayPal 50, Stripe 100 and that of VIP is      *)
(* PayPal 0, Stripe 200.                                                    *)

\* The indices of the entries of a breakdown array that carry a key.
EntriesKeyed(entries, keyField, key) ==
    {j \in 1..Len(entries) : entries[j][keyField] = key}

\* The three records of the GA / VIP example.
ExampleInput ==
    /\ validAttendees = << Attendee("Gala", "GA", 100, "Valid", "Stripe", "Online", 1),
                           Attendee("Gala", "GA", 50, "Valid", "PayPal", "Door", 2) >>
    /\ cancelledAttendees = << Attendee("Expo", "VIP", 200, "Cancelled", "Stripe", Undefined, 1) >>

PaidByGateway(row) ==
    [j \in 1..Len(row.gatewayBreakdown) |->
        <<row.gatewayBreakdown[j].gateway, row.gatewayBreakdown[j].totalPaid>>]

C12_ZeroFill ==
    Done =>
        /\ \A v \in Views(result) : \A i \in 1..Len(v.rows) :
              \A d \in {d \in BreakdownFields : HasBreakdown(v.rows[i], d)} :
                  \A key \in PrimaryKeys(result, KeyFieldOf(d)) :
                      EntryContributors(v.keyField, v.rows[i][v.keyField],
                                        KeyFieldOf(d), key) = {}
                      => /\ Cardinality(EntriesKeyed(v.rows[i][d], KeyFieldOf(d), key)) = 1
                         /\ \A j \in EntriesKeyed(v.rows[i][d], KeyFieldOf(d), key) :
                               IsZeroBucket(v.rows[i][d][j])
        /\ ExampleInput =>
              /\ KeySeq(result.rows, "ticketType") = <<"GA", "VIP">>
              /\ PaidByGateway(result.rows[1]) = << <<"PayPal", 50>>, <<"Stripe", 100>> >>
              /\ PaidByGateway(result.rows[2]) = << <<"PayPal", 0>>, <<"Stripe", 200>> >>

\* The example itself: VIP has no PayPal record and gets the zero entry.
C12_Witness ==
    /\ Done
    /\ ExampleInput
    /\ IsZeroBucket(result.rows[2].gatewayBreakdown[1])
    /\ result.rows[2].gatewayBreakdown[1].gateway = "PayPal"

(* C13 - totality: for every pair of finite lists of well-typed attendee    *)
(* records, records without gateway or sales channel and empty lists        *)
(* included, the call of generateReport runs to completion and returns a    *)
(* ReportData; it never ends in an exception.                               *)

\* The steps the call still has to take: the phases left and, within the
\* loop, the records left.
PhaseRank ==
    CASE pc = "start" -> 6
      [] pc = "loop" -> 5
      [] pc = "rows" -> 4
      [] pc = "gatewayRows" -> 3
      [] pc = "salesChannelRows" -> 2
      [] pc = "return" -> 1
      [] OTHER -> 0

StepsLeft == PhaseRank + (Len(validAttendees) + Len(cancelledAttendees) - processedCount)

\* The guards of the actions: the states in which the call has a next step.
CanStep ==
    \/ pc \in {"start", "rows", "gatewayRows", "salesChannelRows", "return"}
    \/ pc = "loop" /\ processedCount <= Len(allAttendees)

\* CanStep is the enabling condition of Next.
CanStepIsEnabled == CanStep <=> ENABLED Next

\* Every step leaves the call either returned or able to go on, and nearer
\* to its end: no exception, no state without a successor, no endless loop.
C13_Total == [][(Done' \/ CanStep') /\ StepsLeft' < StepsLeft]_vars

\* A call with an empty valid list and a record without gateway and sales
\* channel has returned its report.
C13_Witness ==
    /\ Done
    /\ validAttendees = <<>>
    /\ \E i \in 1..Len(cancelledAttendees) :
          /\ cancelledAttendees[i].gateway = Undefined
          /\ cancelledAttendees[i].salesChannel = Undefined
    /\ result.eventName = cancelledAttendees[1].eventName
    /\ Len(result.rows) >= 1

(* C14 - generateReport has no side effects: during the whole call both     *)
(* input lists keep their length, order and elements, no field of an input  *)
(* record changes, and once the report is returned nothing changes any      *)
(* more.                                                                    *)

WithStatus(positions, status) == {i \in positions : Scanned[i].status = status}

\* The counts of a bucket are the numbers of its contributors by status.
CountsByStatus(bucket, positions) ==
    /\ bucket.validCount = Cardinality(WithStatus(positions, "Valid"))
    /\ bucket.cancelledCount = Cardinality(WithStatus(positions, "Cancelled"))

C15_CountedByStatus ==
    Done =>
        \A v \in Views(result) : \A i \in 1..Len(v.rows) :
            /\ CountsByStatus(v.rows[i], RowContributors(v.keyField, v.rows[i][v.keyField]))
            /\ \A d \in {d \in BreakdownFields : HasBreakdown(v.rows[i], d)} :
                  \A j \in 1..Len(v.rows[i][d]) :
                      CountsByStatus(v.rows[i][d][j],
                          EntryContributors(v.keyField, v.rows[i][v.keyField],
                                            KeyFieldOf(d), v.rows[i][d][j][KeyFieldOf(d)]))

\* A Cancelled record in validAttendees creates a bucket, and a Valid record
\* in cancelledAttendees is added to it.
C15_Witness ==
    /\ Done
    /\ Len(validAttendees) >= 1
    /\ validAttendees[1].status = "Cancelled"
    /\ \E i \in 1..Len(cancelledAttendees) :
          /\ cancelledAttendees[i].status = "Valid"
          /\ cancelledAttendees[i].ticketType = validAttendees[1].ticketType
          /\ cancelledAttendees[i].salesChannel = validAttendees[1].salesChannel
          /\ Truthy(validAttendees[1].salesChannel)

(* C16 - re-aggregation: turning each row of rows into one synthetic        *)
(* attendee (ticketType = the row's key, paid = the row's totalPaid, each   *)
(* fee field = the row's sum) and running generateReport on these records   *)
(* yields rows with the same ticket-type key sequence and, per ticket type, *)
(* the same totalPaid and the same 13 fee sums.                             *)

AttendeeFields ==
    {"eventName", "ticketType", "paid", "status", "gateway", "salesChannel"} \cup FeeFieldSet

\* The synthetic attendee of a row.
Synthetic(row, name, status) ==
    [f \in AttendeeFields |->
        CASE f = "eventName" -> name
          [] f = "ticketType" -> row.ticketType
          [] f = "paid" -> row.totalPaid
          [] f = "status" -> status
          [] f \in {"gateway", "salesChannel"} -> Undefined
          [] OTHER -> row[f]]

SyntheticAttendees(report, status) ==
    [j \in 1..Len(report.rows) |-> Synthetic(report.rows[j], report.eventName, status)]

SameKeysAndSums(again, report) ==
    /\ KeySeq(again.rows, "ticketType") = KeySeq(report.rows, "ticketType")
    /\ \A j \in 1..Len(report.rows) : \A f \in NumericFields :
          again.rows[j][f] = report.rows[j][f]

C16_Reaggregation ==
    Done =>
        /\ SameKeysAndSums(generateReport(SyntheticAttendees(result, "Valid"), <<>>), result)
        /\ SameKeysAndSums(generateReport(<<>>, SyntheticAttendees(result, "Cancelled")), result)

\* Two rows, one of them the sum of two records with non-zero amounts.
C16_Witness ==
    /\ Done
    /\ Len(result.rows) = 2
    /\ \E j \in 1..2 :
          /\ Cardinality(RowContributors("ticketType", result.rows[j].ticketType)) = 2
          /\ \A f \in NumericFields : result.rows[j][f] # 0
          /\ \A k \in RowContributors("ticketType", result.rows[j].ticketType) :
                Scanned[k].paid # result.rows[j].totalPaid

----------------------------------------------------------------------------
(* Properties of the column registry and of the cell formatting *)

HasBreakdownSelected == breakdownType # "none"

\* A column that reads the key field of a dimension.
IsKeyColumn(col) == col.extractValue \in PrimaryDimensions

\* Everything after the key column(s).
MetricPart(columns) == SelectSeq(columns, LAMBDA col : ~IsKeyColumn(col))

IdsOf(columns) == [k \in 1..Len(columns) |-> columns[k].id]

LabelsOf(columns) == [k \in 1..Len(columns) |-> columns[k].label]

\* The metric sequence as the specification lists it.
StatedMetricIds ==
    << "totalPaid", "validCount", "cancelledCount",
       "humanitixPassedOnFees", "humanitixAbsorbedFees", "amexSurcharge", "customTax",
       "zipFeeAbsorbed", "afterpayFeeAbsorbed", "refunds", "feeRebate", "yourEarnings",
       "refundedFees", "discountRedeemed", "taxOnSales", "taxOnBookingFees" >>

(* C17 - for every primaryDimension and every hasBreakdown the list         *)
(* returned by getColumnsForView is the key column of the primary           *)
(* dimension, then a key column of the breakdown dimension if and only if   *)
(* hasBreakdown, then the metric columns, which are the same sequence for   *)
(* all arguments: totalPaid, validCount, cancelledCount and the 13 fee      *)
(* fields in their stated order.                                            *)

C17_ColumnOrder ==
    viewColumns # NotYet =>
        /\ viewColumns[1].extractValue = primaryDimension
        /\ Len(viewColumns) =
               (IF HasBreakdownSelected THEN 2 ELSE 1) + Len(StatedMetricIds)
        /\ HasBreakdownSelected =>
               /\ IsKeyColumn(viewColumns[2])
               /\ viewColumns[2].extractValue # primaryDimension
        /\ IdsOf(SubSeq(viewColumns, Len(viewColumns) - Len(StatedMetricIds) + 1,
                        Len(viewColumns)))
               = StatedMetricIds

(* C18 - as stated: the metric columns returned by getColumnsForView,       *)
(* everything after the key column(s), are exactly 15 columns, so the list  *)
(* has 16 columns without a breakdown and 17 with one.                      *)

C18_FifteenMetricColumns ==
    viewColumns # NotYet =>
        /\ Len(MetricPart(viewColumns)) = 15
        /\ Len(viewColumns) = IF HasBreakdownSelected THEN 17 ELSE 16

(* C18 - amended: the metric columns returned by getColumnsForView,         *)
(* everything after the key column(s), are exactly 16 columns (paid, valid  *)
(* count, cancelled count and the 13 fee fields), so the list has 17        *)
(* columns without a breakdown and 18 with one.                             *)

C18_SixteenMetricColumns ==
    viewColumns # NotYet =>
        /\ Len(MetricPart(viewColumns)) = 16
        /\ Len(MetricPart(viewColumns)) = 3 + Len(FeeFields)
        /\ Len(viewColumns) = IF HasBreakdownSelected THEN 18 ELSE 17

\* The columns of a view with a breakdown were asked for.
C18_Witness ==
    /\ viewColumns # NotYet
    /\ HasBreakdownSelected
    /\ Len(viewColumns) = 18
    /\ viewColumns[3].id = "totalPaid"

(* C19 - for every primaryDimension and every hasBreakdown,                 *)
(* getColumnsForTable returns the columns of getColumnsForView for the same *)
(* primary dimension, in the same order, without the breakdown key column:  *)
(* it never contains a breakdown key column and does not depend on          *)
(* hasBreakdown.                                                            *)

IsBreakdownKeyColumn(col) ==
    col.name \in {"GATEWAY_BREAKDOWN_COLUMN", "TICKET_TYPE_BREAKDOWN_COLUMN"}

WithoutBreakdownColumn(columns) ==
    SelectSeq(columns, LAMBDA col : ~IsBreakdownKeyColumn(col))

C19_TableColumns ==
    tableColumns # NotYet =>
        /\ \A hasBreakdown \in BOOLEAN :
              tableColumns =
                  WithoutBreakdownColumn(getColumnsForView(primaryDimension, hasBreakdown))
        /\ \A k \in 1..Len(tableColumns) : ~IsBreakdownKeyColumn(tableColumns[k])
        /\ viewColumns # NotYet => tableColumns = WithoutBreakdownColumn(viewColumns)

\* Both lists were asked for with a breakdown selected: the CSV list is one
\* column longer.
C19_Witness ==
    /\ tableColumns # NotYet
    /\ viewColumns # NotYet
    /\ HasBreakdownSelected
    /\ Len(viewColumns) = Len(tableColumns) + 1
    /\ IsBreakdownKeyColumn(viewColumns[2])

(* C20 - the CSV text of a cell is csvFormatValue applied to the extracted  *)
(* value when the column has csvFormatValue, otherwise formatValue applied  *)
(* to it when the column has formatValue, otherwise the plain string form   *)
(* of the value; the on-screen text is formatValue applied to the value     *)
(* when the column has formatValue and the plain string form otherwise,     *)
(* never csvFormatValue.                                                    *)

CellValue == getColumnValue(column, cellRow)

Has(formatter) == formatter # Undefined

\* The cell of a column on the row keyed `key`.
CellIs(columnName, key) ==
    /\ column.name = columnName
    /\ \E keyField \in PrimaryDimensions :
          keyField \in DOMAIN cellRow /\ cellRow[keyField] = key

C20_FormatChain ==
    /\ csvText # NoText =>
          /\ Has(column.csvFormatValue) =>
                csvText = ApplyFormatter(column.csvFormatValue, CellValue)
          /\ (~Has(column.csvFormatValue) /\ Has(column.formatValue)) =>
                csvText = ApplyFormatter(column.formatValue, CellValue)
          /\ (~Has(column.csvFormatValue) /\ ~Has(column.formatValue)) =>
                csvText = String(CellValue)
          /\ CellIs("PAID_COLUMN", "GA") => csvText = "1234567.00"
          /\ CellIs("PAID_COLUMN", "Stripe") => csvText = "0.50"
          /\ CellIs("REFUNDS_COLUMN", "Online") => csvText = "-7.35"
          /\ CellIs("FORMAT_ONLY", "Stripe") => csvText = "$70.00"
          /\ CellIs("CSV_FORMAT_ONLY", "Stripe") => csvText = "70.00"
          /\ CellIs("VALID_TICKETS_COLUMN", "GA") => csvText = "2"
          /\ CellIs("TICKET_TYPE_COLUMN", "GA") => csvText = "GA"
    /\ screenText # NoText =>
          /\ Has(column.formatValue) =>
                screenText = ApplyFormatter(column.formatValue, CellValue)
          /\ ~Has(column.formatValue) => screenText = String(CellValue)
          /\ CellIs("PAID_COLUMN", "GA") => screenText = "$1,234,567.00"
          /\ CellIs("PAID_COLUMN", "Stripe") => screenText = "$0.50"
          /\ CellIs("REFUNDS_COLUMN", "Online") => screenText = "-$7.35"
          /\ CellIs("FORMAT_ONLY", "Stripe") => screenText = "$70.00"
          /\ CellIs("CSV_FORMAT_ONLY", "Stripe") => screenText = "70"
          /\ CellIs("CANCELLED_TICKETS_COLUMN", "Stripe") => screenText = "12"

\* A monetary cell of the registry was written to the CSV and rendered: the
\* two texts differ.
C20_Witness ==
    /\ csvText # NoText
    /\ screenText # NoText
    /\ column \in RegistryColumns
    /\ Has(column.csvFormatValue)
    /\ Has(column.formatValue)
    /\ CellValue.kind = "number"
    /\ csvText # screenText

----------------------------------------------------------------------------
(* Further properties of generateReport *)

(* C25 - within one call the steps are strictly ordered: every input        *)
(* record has been accumulated into the primary and second-level maps, and  *)
(* the global sorted lists of ticket types, gateways and sales channels     *)
(* have been computed from the complete maps, before the first row with its *)
(* breakdown arrays is built; nothing is built from a partially scanned     *)
(* input.                                                                   *)

\* The maps hold every input record.
MapsComplete ==
    /\ processedCount = Len(validAttendees) + Len(cancelledAttendees)
    /\ CurrentMaps = RunLoop(EmptyMaps, Scanned)

\* The global key lists are those of the maps.
KeyListsCollected ==
    /\ allGateways = SortKeys(MapKeys(gatewayMap))
    /\ allTicketTypes = SortKeys(MapKeys(ticketTypeMap))
    /\ allSalesChannels = SortKeys(MapKeys(salesChannelMap))

NoRowsBuilt == rows = <<>> /\ gatewayRows = <<>> /\ salesChannelRows = <<>>

C25_PhaseOrder ==
    [][/\ processedCount' # processedCount =>
             /\ NoRowsBuilt /\ NoRowsBuilt'
             /\ allGateways' = <<>> /\ allTicketTypes' = <<>> /\ allSalesChannels' = <<>>
       /\ globalSets' # globalSets => MapsComplete /\ NoRowsBuilt
       /\ <<rows, gatewayRows, salesChannelRows>>' # <<rows, gatewayRows, salesChannelRows>> =>
             MapsComplete /\ KeyListsCollected /\ UNCHANGED <<maps, globalSets>>]_vars

\* Three records with two gateways and two sales channels have gone through
\* all phases.
C25_Witness ==
    /\ Done
    /\ processedCount = 3
    /\ Len(allGateways) = 2
    /\ Len(allSalesChannels) = 2
    /\ Len(rows) >= 1
    /\ Len(rows[1].gatewayBreakdown) = 2

(* C26 - the two views of a dimension pair agree: for distinct dimensions   *)
(* X and Y, a key x of X and a key y of Y, the entry keyed y in the         *)
(* Y-breakdown of the X-view row keyed x has the same totalPaid,            *)
(* validCount, cancelledCount and 13 fee sums as the entry keyed x in the   *)
(* X-breakdown of the Y-view row keyed y.                                   *)

\* The breakdown field whose entries are keyed by a dimension.
BreakdownFieldOf(keyField) ==
    CHOOSE d \in BreakdownFields : KeyFieldOf(d) = keyField

Metrics(bucket) == [f \in NumericFields \cup CountFields |-> bucket[f]]

\* The metrics of the entries of a row's breakdown that carry a key.
EntryMetrics(row, keyField, key) ==
    IF HasBreakdown(row, BreakdownFieldOf(keyField))
    THEN {Metrics(row[BreakdownFieldOf(keyField)][j]) :
             j \in EntriesKeyed(row[BreakdownFieldOf(keyField)], keyField, key)}
    ELSE {}

C26_ViewsAgree ==
    Done =>
        \A vx, vy \in Views(result) :
            vx.keyField # vy.keyField =>
                \A i \in 1..Len(vx.rows) : \A j \in 1..Len(vy.rows) :
                    /\ Cardinality(EntryMetrics(vx.rows[i], vy.keyField,
                                                vy.rows[j][vy.keyField])) = 1
                    /\ EntryMetrics(vx.rows[i], vy.keyField, vy.rows[j][vy.keyField])
                          = EntryMetrics(vy.rows[j], vx.keyField, vx.rows[i][vx.keyField])

\* A ticket type and a gateway shared by two records: the entry is found,
\* with both records in it, in the ticket-type view and in the gateway view.
C26_Witness ==
    /\ Done
    /\ \E i \in 1..Len(result.rows) : \E j \in 1..Len(result.gatewayRows) :
          /\ Cardinality(EntryContributors("ticketType", result.rows[i].ticketType,
                             "gateway", result.gatewayRows[j].gateway)) = 2
          /\ \E e \in EntryMetrics(result.gatewayRows[j], "ticketType",
                                    result.rows[i].ticketType) :
                e.validCount + e.cancelledCount = 2 /\ e.totalPaid # 0

(* C27 - for every primary row and each of its breakdown arrays the sums of *)
(* validCount and of cancelledCount over the entries never exceed the row's *)
(* validCount and cancelledCount, and equal them when every record of the   *)
(* row has a non-empty value of the breakdown dimension; the                *)
(* ticketTypeBreakdown of every gatewayRows row and every salesChannelRows  *)
(* row adds up exactly to the row's counts and sums.                        *)

C27_BreakdownWithinRow ==
    Done =>
        \A v \in Views(result) : \A i \in 1..Len(v.rows) :
            \A d \in {d \in BreakdownFields : HasBreakdown(v.rows[i], d)} :
                /\ \A c \in CountFields : SumField(v.rows[i][d], c) <= v.rows[i][c]
                /\ (\A k \in RowContributors(v.keyField, v.rows[i][v.keyField]) :
                        Truthy(Scanned[k][KeyFieldOf(d)]))
                      => \A c \in CountFields : SumField(v.rows[i][d], c) = v.rows[i][c]
                /\ d = "ticketTypeBreakdown" =>
                      \A f \in NumericFields \cup CountFields :
                          SumField(v.rows[i][d], f) = v.rows[i][f]

\* A ticket type with a record that has no gateway: its gateway breakdown
\* counts fewer records than the row, while the ticket-type breakdown of a
\* sales channel adds up.
C27_Witness ==
    /\ Done
    /\ \E i \in 1..Len(result.rows) :
          /\ HasBreakdown(result.rows[i], "gatewayBreakdown")
          /\ SumField(result.rows[i].gatewayBreakdown, "validCount")
                + SumField(result.rows[i].gatewayBreakdown, "cancelledCount")
                < result.rows[i].validCount + result.rows[i].cancelledCount
    /\ \E j \in 1..Len(result.salesChannelRows) :
          /\ result.salesChannelRows[j].validCount + result.salesChannelRows[j].cancelledCount = 2
          /\ SumField(result.salesChannelRows[j].ticketTypeBreakdown, "totalPaid")
                = result.salesChannelRows[j].totalPaid

----------------------------------------------------------------------------
(* Properties of the CSV export *)

\* What the reader gives for a text that is not a CSV text: no record.
Malformed == <<>>

\* A reader of CSV texts after RFC 4180, with the line feed as line break.
\* A comma or line feed separates when an even number of quotes precedes it;
\* a field is either free of quotes, or enclosed in quotes with every quote
\* inside doubled.
QuotePositions(text) == {i \in 1..Len(text) : CharAt(text, i) = "\""}

SeparatorPositions(text, ch) ==
    LET quotes == QuotePositions(text)
    IN {i \in 1..Len(text) :
           CharAt(text, i) = ch /\ Cardinality({q \in quotes : q < i}) % 2 = 0}

\* The elements of a set of numbers in ascending order.
InOrder(S) ==
    [r \in 1..Cardinality(S) |-> CHOOSE x \in S : Cardinality({y \in S : y <= x}) = r]

\* The pieces of text[from .. to] between the separators.
Pieces(text, from, to, separators) ==
    LET ends == InOrder({p \in separators : from <= p /\ p <= to} \cup {to + 1})
    IN [k \in 1..Len(ends) |->
           [from |-> IF k = 1 THEN from ELSE ends[k - 1] + 1, to |-> ends[k] - 1]]

\* Every quote of the text is followed or preceded by its twin.
RECURSIVE QuotesPaired(_)
QuotesPaired(str) ==
    IF Len(str) = 0 THEN TRUE
    ELSE IF CharAt(str, 1) # "\"" THEN QuotesPaired(From(str, 2))
    ELSE Len(str) >= 2 /\ CharAt(str, 2) = "\"" /\ QuotesPaired(From(str, 3))

RECURSIVE HalveQuotes(_)
HalveQuotes(str) ==
    IF Len(str) = 0 THEN ""
    ELSE IF CharAt(str, 1) = "\"" THEN "\"" \o HalveQuotes(From(str, 3))
    ELSE CharAt(str, 1) \o HalveQuotes(From(str, 2))

WellFormedField(str) ==
    IF Len(str) > 0 /\ CharAt(str, 1) = "\""
    THEN /\ Len(str) >= 2
         /\ CharAt(str, Len(str)) = "\""
         /\ QuotesPaired(SubSeq(str, 2, Len(str) - 1))
    ELSE ~Includes(str, "\"")

Unescaped(str) ==
    IF Len(str) > 0 /\ CharAt(str, 1) = "\""
    THEN HalveQuotes(SubSeq(str, 2, Len(str) - 1))
    ELSE str

\* The raw fields of the records of a text.
RawRecords(text) ==
    LET breaks == SeparatorPositions(text, "\n")
        commas == SeparatorPositions(text, ",")
        lines == Pieces(text, 1, Len(text), breaks)
    IN [r \in 1..Len(lines) |->
           LET parts == Pieces(text, lines[r].from, lines[r].to, commas)
           IN [k \in 1..Len(parts) |-> SubSeq(text, parts[k].from, parts[k].to)]]

\* The records of a text, each the sequence of its fields.
Records(text) ==
    LET raw == RawRecords(text)
    IN IF \A r \in 1..Len(raw) : \A k \in 1..Len(raw[r]) : WellFormedField(raw[r][k])
       THEN [r \in 1..Len(raw) |-> [k \in 1..Len(raw[r]) |-> Unescaped(raw[r][k])]]
       ELSE Malformed

NeedsQuoting(str) == Includes(str, ",") \/ Includes(str, "\"") \/ Includes(str, "\n")

QuoteCount(str) == Cardinality({i \in 1..Len(str) : CharAt(str, i) = "\""})

Exported == csv # NoText /\ ~IsNull(reportData)

\* The breakdown entries of a primary row under the selected breakdown, if
\* a breakdown is selected and the row has the array.
SelectedEntries(row) ==
    IF breakdownType # "none" /\ HasBreakdown(row, BreakdownFieldOf(breakdownType))
    THEN row[BreakdownFieldOf(breakdownType)]
    ELSE <<>>

\* The number of data lines a primary row stands for.
LinesFor(row) == IF SelectedEntries(row) = <<>> THEN 1 ELSE Len(SelectedEntries(row))

\* The number of lines before the lines of the i-th primary row.
RECURSIVE LinesBefore(_, _)
LinesBefore(primaryRows, i) ==
    IF i = 1 THEN 1 ELSE LinesBefore(primaryRows, i - 1) + LinesFor(primaryRows[i - 1])

(* C22 - the CSV text is one header line followed by exactly one data line  *)
(* per primary row when no breakdown is selected or the row has no          *)
(* breakdown array for it, and exactly one data line per breakdown entry of *)
(* each primary row when a breakdown is selected; every data line has as    *)
(* many fields as the header.                                               *)
C22_CsvLines ==
    Exported =>
        LET records == Records(csv)
            primaryRows == PrimaryRows(reportData, primaryDimension)
        IN /\ records # Malformed
           /\ Len(records) = LinesBefore(primaryRows, Len(primaryRows) + 1)
           /\ records[1] = LabelsOf(getColumnsForView(primaryDimension,
                                                      breakdownType # "none"))
           /\ \A r \in 1..Len(records) : Len(records[r]) = Len(records[1])

\* Two ticket types, one with a comma in its name, each broken down by
\* two gateways: a header and four data lines.
C22_Witness ==
    /\ Exported
    /\ primaryDimension = "ticketType"
    /\ breakdownType = "gateway"
    /\ Len(reportData.rows) = 2
    /\ reportData.rows[2].ticketType = "VIP, Gold"
    /\ Len(Records(csv)) = 5
    /\ Records(csv)[4][1] = "VIP, Gold"

(* C23 - in every CSV data line written for a breakdown entry, for each of  *)
(* the six combinations of primary and breakdown dimension, the primary     *)
(* dimension's field holds the key of the enclosing primary row, the        *)
(* breakdown field holds the key of the entry, and every metric field holds *)
(* the value of the entry.                                                  *)
C23_BreakdownLines ==
    Exported =>
        LET records == Records(csv)
            primaryRows == PrimaryRows(reportData, primaryDimension)
        IN \A i \in 1..Len(primaryRows) :
               \A j \in 1..Len(SelectedEntries(primaryRows[i])) :
                   LET line == records[LinesBefore(primaryRows, i) + j]
                       entry == SelectedEntries(primaryRows[i])[j]
                   IN /\ line[1] = primaryRows[i][primaryDimension]
                      /\ line[2] = entry[breakdownType]
                      /\ \A k \in 1..Len(MetricColumns) :
                            line[2 + k] = formatColumnValueForCsv(MetricColumns[k], entry)

\* The same for the two combinations of ticket type and gateway.
C23_TicketTypeAndGateway ==
    {primaryDimension, breakdownType} = {"ticketType", "gateway"} => C23_BreakdownLines

(* C24 - for each of the three primary dimensions the first column of the   *)
(* view reads the key field of that dimension from the primary rows, and    *)
(* with a breakdown dimension the second column reads the key of that       *)
(* breakdown dimension from the breakdown entries; the CSV columns never    *)
(* read a key field the row does not have.                                  *)
C24_KeyColumns ==
    Exported =>
        LET columns == getColumnsForView(primaryDimension, breakdownType # "none")
            primaryRows == PrimaryRows(reportData, primaryDimension)
        IN \A i \in 1..Len(primaryRows) :
               /\ getColumnValue(columns[1], primaryRows[i])
                     = JsString(primaryRows[i][primaryDimension])
               /\ \A j \in 1..Len(SelectedEntries(primaryRows[i])) :
                     getColumnValue(columns[2], SelectedEntries(primaryRows[i])[j])
                       = JsString(SelectedEntries(primaryRows[i])[j][breakdownType])

\* The same without the sales channel.
C24_TicketTypeAndGateway ==
    (primaryDimension # "salesChannel" /\ breakdownType # "salesChannel") => C24_KeyColumns

----------------------------------------------------------------------------
(* Properties of the selections of the report table *)

(* C28 - after any sequence of selections of primary dimension and          *)
(* breakdown, once the reactive effect has run the breakdown is never equal *)
(* to the primary dimension (it was reset to 'none'), and after every       *)
(* change of the primary dimension the effect runs and leaves no row        *)
(* expanded.                                                                *)
C28_BreakdownDiffers ==
    /\ [](~effectPending => breakdownType # primaryDimension)
    /\ [][/\ primaryDimension' # primaryDimension => effectPending'
          /\ (effectPending /\ ~effectPending') =>
                /\ expandedRows' = {}
                /\ breakdownType' = IF breakdownType = primaryDimension
                                     THEN "none" ELSE breakdownType]_vars

\* The primary dimension was changed to the dimension of the breakdown
\* while rows were expanded; the effect is due.
C28_Witness ==
    /\ effectPending
    /\ primaryDimension = "salesChannel"
    /\ breakdownType = primaryDimension
    /\ expandedRows # {}

(* C29 - starting from the selection {'all'}, whatever dates are checked    *)
(* and unchecked, 'all' is never selected together with a date; unchecking  *)
(* the last selected date puts the selection back to {'all'}; the empty     *)
(* selection is reached only by unchecking 'all' itself.                    *)
C29_DateSelection ==
    /\ []("all" \in selectedDates => selectedDates = {"all"})
    /\ [][/\ \A d \in SampleDates :
                (selectedDates = {d} /\ d \notin selectedDates') =>
                    selectedDates' = {"all"}
          /\ (selectedDates' = {} /\ selectedDates # {}) => selectedDates = {"all"}]_vars

\* 'all' was unchecked: nothing is selected.
C29_Witness ==
    /\ selectedDates = {}
    /\ ~effectPending

----------------------------------------------------------------------------
(* Properties of the upload component *)

InFlight == Len(invocations) > 0

BothSelected == validFile # NoFile /\ cancelledFile # NoFile

DeliveredFromSelected ==
    /\ delivered.validAttendees = Parsed(validFile, "Valid")
    /\ delivered.cancelledAttendees = Parsed(cancelledFile, "Cancelled")

(* C30 - however file selections and the completions of parsing and storing *)
(* interleave: whenever no call of processFiles is in flight, the attendee  *)
(* lists last delivered through onDataParsed were parsed from the valid     *)
(* file and the cancelled file selected at that moment; and processing is   *)
(* true whenever a call of processFiles is in flight.                       *)
C30_UploadConsistent ==
    /\ InFlight => processing
    /\ (~InFlight /\ BothSelected /\ ~IsNull(delivered)) => DeliveredFromSelected

\* The first half alone, and the second half alone.
C30_BusyWhileInFlight == InFlight => processing

C30_LastDelivery ==
    (~InFlight /\ BothSelected /\ ~IsNull(delivered)) => DeliveredFromSelected

\* The same as long as no second call was started while one was in flight.
C30_OneCallAtATime ==
    startedCount <= 1 => C30_UploadConsistent

====
